---- MODULE Spec2Model ----
(***************************************************************************)
(* The two CoreMIDI timing tools of orchestron:                            *)
(*   tools/midi_pulse.c  sends a note on/off pair at a fixed cadence,      *)
(*   tools/midi_stats.c  receives note-ons and measures interval jitter.   *)
(* Times are host ticks (mach_absolute_time) and nanoseconds; the          *)
(* timebase is the numer/denom pair read once at startup.  The variables   *)
(* with a p_ prefix belong to midi_pulse, those with s_ to midi_stats.     *)
(***************************************************************************)
EXTENDS Integers, Sequences, FiniteSets, TLC

VARIABLES
    g_timebase,         \* mach_timebase_info_data_t: [numer, denom]
    p_cfg,              \* Config of midi_pulse, after parse_args
    p_pc,               \* position of main() of midi_pulse
    p_g_keep_running,   \* g_keep_running of midi_pulse (1 until a signal)
    p_clock,            \* mach_absolute_time() as seen by midi_pulse
    p_i,                \* loop index i
    p_start_host,       \* start_host
    p_on_target,        \* on_target of the current iteration
    p_dispatch_target,  \* dispatch_target = target_host of sleep_until_host
    p_current,          \* current: last reading inside sleep_until_host
    p_sleep_ns,         \* request of the pending nanosleep
    p_note_is_on,       \* note_is_on
    p_sent_notes,       \* sent_notes
    p_stats,            \* JitterStats stats (samples: history of stats_add)
    p_sent,             \* history: every send_short_at call, in order
    p_reports,          \* history: every line stats_print wrote
    p_exit_len,         \* history: Len(p_sent) when the for loop was left
    p_signal,           \* history: where main() was when on_signal ran
    s_source,           \* what the connected source sends: "notes" or "bytes"
    s_cfg,              \* Config of midi_stats, after parse_args
    s_budget,           \* packets the source may still deliver
    s_g_keep_running,   \* g_keep_running of midi_stats
    s_state,            \* RuntimeState state (without cfg)
    s_clock,            \* mach_absolute_time() as seen by midi_stats
    cb_pc,              \* position of the driver's thread in midi_read_proc
    cb_pktlist,         \* pktlist of the running midi_read_proc
    cb_n,               \* midi_read_proc: loop index i
    cb_arrival,         \* midi_read_proc: arrival_timestamp
    cb_i,               \* process_packet_bytes: scan index i
    m_pc,               \* position of main() of midi_stats
    s_reports,          \* history: every report print_report wrote
    s_calls,            \* history: every call of process_packet_bytes
    d_pc,               \* position of a caller of delta_ns_from_host
    d_actual,           \* its first argument
    d_target,           \* its second argument
    d_delta,            \* delta_ns_from_host(actual, target)
    d_reverse,          \* delta_ns_from_host(target, actual)
    b_tool,             \* the tool that is starting: its main() up to the run
    b_pc,               \* position of main() before the run
    b_status,           \* exit status of main(), -1 while it runs
    b_log,              \* history: calls main() made before the run
    w_pc,               \* position in the schedule arithmetic of main()
    w_cfg,              \* its configuration: interval_ns and gate
    w_start_host,       \* start_host, a uint64_t
    w_interval_host,    \* interval_host, a uint64_t
    w_gate_host,        \* gate_host, a uint64_t
    w_i,                \* loop index i
    w_on_target,        \* on_target, a uint64_t
    w_off_target        \* off_target, a uint64_t

pulse_vars ==
    <<p_cfg, p_pc, p_g_keep_running, p_clock, p_i, p_start_host, p_on_target,
      p_dispatch_target, p_current, p_sleep_ns, p_note_is_on, p_sent_notes,
      p_stats, p_sent, p_reports, p_exit_len, p_signal>>

stats_vars ==
    <<s_source, s_cfg, s_budget, s_g_keep_running, s_state, s_clock, cb_pc,
      cb_pktlist, cb_n, cb_arrival, cb_i, m_pc, s_reports, s_calls>>

delta_vars == <<d_pc, d_actual, d_target, d_delta, d_reverse>>

startup_vars == <<b_tool, b_pc, b_status, b_log>>

schedule_vars ==
    <<w_pc, w_cfg, w_start_host, w_interval_host, w_gate_host, w_i,
      w_on_target, w_off_target>>

vars ==
    <<g_timebase, pulse_vars, stats_vars, delta_vars, startup_vars,
      schedule_vars>>

(***************************************************************************)
(* Bounds of the model.                                                    *)
(***************************************************************************)
\* Largest --count of midi_pulse; a run with count = 0 is followed for this
\* many iterations.
MaxNotes == 3

\* Reading of mach_absolute_time() when a tool starts.
InitialClock == 1000

\* Packets the source delivers to midi_stats in a run.
MaxPackets == 3

\* Pieces (messages, parts of messages) in one buffer handed to the classifier.
MaxFrags == 3

\* Largest tick handed to delta_ns_from_host when it is called on its own.
MaxTick == 12

(***************************************************************************)
(* Program constants.  TLC integers are 32 bits wide: INT64_MAX/INT64_MIN  *)
(* stand for the 64-bit limits and lie outside every sample of the model. *)
(***************************************************************************)
INT64_MAX == 2147483647
INT64_MIN == -2147483647
LEAD_IN_NS == 500000000
COARSE_SLEEP_NS == 2000000
COARSE_MARGIN_NS == 500000
FINE_SLEEP_NS == 100000
MAX_LEAD_NS == 2000000

\* Stands for 2^64, the modulus of uint64_t arithmetic.
UINT64_WRAP == 16777216

\* Timebases the tools may read: 1/1 (Intel) and 125/3 (Apple silicon).
Timebases == {[numer |-> 1, denom |-> 1], [numer |-> 125, denom |-> 3]}

\* Time is advanced by the steps that take time: a nanosleep (its request,
\* and possibly more), a pass of sleep_until_host that does not sleep, the
\* wake-up before dispatch_now is read, and the entry of the cleanup.
\* Time, in ns, such a step may take beyond what it asked for.
AdvanceNs == {0, 62500}

\* Time, in ns, by which a nanosleep may run over its request.
OversleepNs == {0, 3000000}

\* OSStatus of send_short_at: noErr (0) or a failure.
SendStatus == {0, -1}

(***************************************************************************)
(* Clock abstraction.                                                      *)
(***************************************************************************)
host_to_ns(host_ticks) == (host_ticks * g_timebase.numer) \div g_timebase.denom

ns_to_host(ns) == (ns * g_timebase.denom) \div g_timebase.numer

\* Ticks that certainly cover ns nanoseconds (a sleep lasts at least its request).
ticks_covering(ns) ==
    (ns * g_timebase.denom + g_timebase.numer - 1) \div g_timebase.numer

\* Mutant: one unsigned subtraction, whichever argument is larger.
delta_ns_from_host_unguarded(actual, target) ==
    host_to_ns((actual - target) % UINT64_WRAP)

delta_ns_from_host(actual, target) ==
    IF actual >= target
    THEN host_to_ns(actual - target)
    ELSE -host_to_ns(target - actual)

(***************************************************************************)
(* midi_pulse: JitterStats.                                                *)
(***************************************************************************)
stats_init ==
    [min_late_ns |-> INT64_MAX, max_late_ns |-> INT64_MIN,
     sum_late_ns |-> 0, sum_abs_late_ns |-> 0, count |-> 0, samples |-> <<>>]

fabsl(x) == IF x < 0 THEN -x ELSE x

stats_add(stats, late_ns) ==
    [min_late_ns |-> IF late_ns < stats.min_late_ns THEN late_ns ELSE stats.min_late_ns,
     max_late_ns |-> IF late_ns > stats.max_late_ns THEN late_ns ELSE stats.max_late_ns,
     sum_late_ns |-> stats.sum_late_ns + late_ns,
     sum_abs_late_ns |-> stats.sum_abs_late_ns + fabsl(late_ns),
     count |-> stats.count + 1,
     samples |-> Append(stats.samples, late_ns)]

\* The lines stats_print writes: none for an empty accumulator, else one line
\* carrying the values it formats.
stats_print(stats, note_count) ==
    IF stats.count = 0
    THEN <<>>
    ELSE <<[note_on |-> note_count, sum |-> stats.sum_late_ns,
            sum_abs |-> stats.sum_abs_late_ns, count |-> stats.count,
            min |-> stats.min_late_ns, max |-> stats.max_late_ns]>>

\* The JitterStats after stats_print: it takes a const JitterStats *.
stats_print_state(stats) == stats

(***************************************************************************)
(* midi_pulse: configuration and the values main() derives from it.        *)
(***************************************************************************)
PulseConfigs ==
    { [count |-> c, interval_ns |-> t.interval_ns, gate_num |-> t.gate_num,
       gate_den |-> 4, report_every |-> t.report_every, channel |-> 2,
       note |-> 60, velocity |-> 100] :
         c \in 0..MaxNotes,
         t \in { [interval_ns |-> 1000001, gate_num |-> 3, report_every |-> 2],
                 [interval_ns |-> 200000000, gate_num |-> 1, report_every |-> 0] } }

channel_zero_based == p_cfg.channel - 1

interval_ns == p_cfg.interval_ns

\* llround(interval_ns * gate): round half away from zero, gate = num/den
gate_ns == (2 * interval_ns * p_cfg.gate_num + p_cfg.gate_den) \div (2 * p_cfg.gate_den)

interval_host == ns_to_host(interval_ns)

gate_host == ns_to_host(gate_ns)

schedule_lead_ns ==
    IF interval_ns \div 2 > MAX_LEAD_NS THEN MAX_LEAD_NS ELSE interval_ns \div 2

schedule_lead_host == ns_to_host(schedule_lead_ns)

\* One call of send_short_at: the packet it builds and the status it returned.
ShortMsg(timestamp, status, data1, data2, result, origin) ==
    [timestamp |-> timestamp, status |-> status, data1 |-> data1,
     data2 |-> data2, result |-> result, origin |-> origin]

NoteOnStatus == 144 + channel_zero_based

NoteOffStatus == 128 + channel_zero_based

ControlStatus == 176 + channel_zero_based

(***************************************************************************)
(* midi_pulse: state after start_host is sampled, before the for loop.     *)
(***************************************************************************)
\* p_signal before any signal.
NoSignal == [pc |-> "none", sent |-> 0]

\* p_signal of a signal that arrives now: from the for test to the test after
\* sleep_until_host main() is in its "wait", then at a send or past the loop.
SignalAt ==
    [pc |-> IF p_pc \in {"loop", "sleep_test", "sleep_read", "nanosleep", "woke"}
            THEN "wait" ELSE p_pc,
     sent |-> Len(p_sent)]

InitPulse ==
    /\ g_timebase \in Timebases
    /\ p_cfg \in PulseConfigs
    /\ p_pc = "loop"
    /\ p_g_keep_running = 1
    /\ p_clock = InitialClock
    /\ p_i = 0
    /\ p_start_host = InitialClock + ns_to_host(LEAD_IN_NS)
    /\ p_on_target = 0
    /\ p_dispatch_target = 0
    /\ p_current = 0
    /\ p_sleep_ns = 0
    /\ p_note_is_on = FALSE
    /\ p_sent_notes = 0
    /\ p_stats = stats_init
    /\ p_sent = <<>>
    /\ p_reports = <<>>
    /\ p_exit_len = 0
    /\ p_signal = NoSignal

\* on_signal of midi_pulse: SIGINT or SIGTERM, at any point of the run.
PulseSignal ==
    /\ p_pc \notin {"off", "done"}
    /\ p_g_keep_running = 1
    /\ p_g_keep_running' = 0
    /\ p_signal' = SignalAt
    /\ UNCHANGED <<g_timebase, delta_vars, schedule_vars, startup_vars, stats_vars,
                   p_cfg, p_pc, p_clock, p_i, p_start_host,
                   p_on_target, p_dispatch_target, p_current, p_sleep_ns,
                   p_note_is_on, p_sent_notes, p_stats, p_sent, p_reports,
                   p_exit_len>>

\* Mutant: the next target is one interval after the last wake time.
OnTarget_accumulated(i) ==
    IF i = 0 THEN p_start_host ELSE p_clock + interval_host

\* on_target of iteration i.
OnTarget(i) == p_start_host + i * interval_host

\* Mutant: the lead is taken off twice.
DispatchTarget_twice(on_target) ==
    IF on_target > schedule_lead_host
    THEN on_target - 2 * schedule_lead_host
    ELSE on_target

\* dispatch_target for an on_target.
DispatchTarget(on_target) ==
    IF on_target > schedule_lead_host THEN on_target - schedule_lead_host ELSE on_target

\* Mutant: the loop runs while i <= count.
LoopContinues_inclusive(i) ==
    p_g_keep_running = 1 /\ (p_cfg.count = 0 \/ i <= p_cfg.count)

\* The for condition: g_keep_running && (cfg.count == 0 || i < cfg.count).
LoopContinues(i) ==
    p_g_keep_running = 1 /\ (p_cfg.count = 0 \/ i < p_cfg.count)

\* The for condition and the head of the body, up to the call of sleep_until_host.
PulseLoop ==
    /\ p_pc = "loop"
    /\ p_cfg.count # 0 \/ p_i < MaxNotes
    /\ IF LoopContinues(p_i)
       THEN /\ p_on_target' = OnTarget(p_i)
            /\ p_dispatch_target' = DispatchTarget(OnTarget(p_i))
            /\ p_pc' = "sleep_test"
            /\ UNCHANGED p_exit_len
       ELSE /\ p_pc' = "cleanup"
            /\ p_exit_len' = Len(p_sent)
            /\ UNCHANGED <<p_on_target, p_dispatch_target>>
    /\ UNCHANGED <<g_timebase, delta_vars, schedule_vars, startup_vars, stats_vars,
                   p_signal, p_cfg, p_g_keep_running, p_clock, p_i,
                   p_start_host, p_current, p_sleep_ns, p_note_is_on,
                   p_sent_notes, p_stats, p_sent, p_reports>>

\* sleep_until_host: while (g_keep_running)
SleepTest ==
    /\ p_pc = "sleep_test"
    /\ p_pc' = IF p_g_keep_running = 1 THEN "sleep_read" ELSE "woke"
    /\ UNCHANGED <<g_timebase, delta_vars, schedule_vars, startup_vars, stats_vars,
                   p_signal, p_cfg, p_g_keep_running, p_clock, p_i,
                   p_start_host, p_on_target, p_dispatch_target, p_current,
                   p_sleep_ns, p_note_is_on, p_sent_notes, p_stats, p_sent,
                   p_reports, p_exit_len>>

\* What one pass of sleep_until_host does after reading current: "return",
\* a nanosleep of the given length, or 0 when it spins without sleeping.
SleepRequest(current, target_host) ==
    LET remaining_ns == host_to_ns(target_host - current)
    IN  IF remaining_ns > COARSE_SLEEP_NS THEN remaining_ns - COARSE_MARGIN_NS
        ELSE IF remaining_ns > FINE_SLEEP_NS THEN remaining_ns \div 2
        ELSE 0

\* sleep_until_host: current = now_host(); return when the target is reached,
\* else choose the sleep; a pass that does not sleep takes its own time.
SleepRead ==
    /\ p_pc = "sleep_read"
    /\ p_current' = p_clock
    /\ IF p_clock >= p_dispatch_target
       THEN p_pc' = "woke" /\ UNCHANGED <<p_sleep_ns, p_clock>>
       ELSE LET sleep_ns == SleepRequest(p_clock, p_dispatch_target)
            IN  /\ p_sleep_ns' = sleep_ns
                /\ IF sleep_ns > 0
                   THEN p_pc' = "nanosleep" /\ UNCHANGED p_clock
                   ELSE /\ p_pc' = "sleep_test"
                        /\ \E adv \in AdvanceNs :
                             p_clock' = p_clock + ns_to_host(adv)
    /\ UNCHANGED <<g_timebase, delta_vars, schedule_vars, startup_vars, stats_vars,
                   p_signal, p_cfg, p_g_keep_running, p_i, p_start_host,
                   p_on_target, p_dispatch_target, p_note_is_on, p_sent_notes,
                   p_stats, p_sent, p_reports, p_exit_len>>

\* Mutant: sleep_until_host returns after the sleep without reading the clock.
SleepNanosleep_no_recheck ==
    /\ p_pc = "nanosleep"
    /\ \E over \in OversleepNs :
         p_clock' = p_clock + ticks_covering(p_sleep_ns) + ns_to_host(over)
    /\ p_pc' = "woke"
    /\ UNCHANGED <<g_timebase, delta_vars, schedule_vars, startup_vars, stats_vars,
                   p_signal, p_cfg, p_g_keep_running, p_i, p_start_host,
                   p_on_target, p_dispatch_target, p_current, p_sleep_ns,
                   p_note_is_on, p_sent_notes, p_stats, p_sent, p_reports,
                   p_exit_len>>

\* nanosleep(&req, NULL) runs its full request, and possibly longer.
SleepNanosleep ==
    /\ p_pc = "nanosleep"
    /\ \E over \in OversleepNs :
         p_clock' = p_clock + ticks_covering(p_sleep_ns) + ns_to_host(over)
    /\ p_pc' = "sleep_test"
    /\ UNCHANGED <<g_timebase, delta_vars, schedule_vars, startup_vars, stats_vars,
                   p_signal, p_cfg, p_g_keep_running, p_i, p_start_host,
                   p_on_target, p_dispatch_target, p_current, p_sleep_ns,
                   p_note_is_on, p_sent_notes, p_stats, p_sent, p_reports,
                   p_exit_len>>

\* nanosleep cut short by the signal (EINTR): the handler has run.
SleepInterrupted ==
    /\ p_pc = "nanosleep"
    /\ p_g_keep_running = 1
    /\ p_g_keep_running' = 0
    /\ p_signal' = SignalAt
    /\ p_pc' = "sleep_test"
    /\ UNCHANGED <<g_timebase, delta_vars, schedule_vars, startup_vars, stats_vars,
                   p_cfg, p_clock, p_i, p_start_host, p_on_target,
                   p_dispatch_target, p_current, p_sleep_ns, p_note_is_on,
                   p_sent_notes, p_stats, p_sent, p_reports, p_exit_len>>

\* Mutant: the note is sent without looking at the flag after the sleep.
PulseWoke_unchecked ==
    /\ p_pc = "woke"
    /\ p_pc' = "note_on"
    /\ UNCHANGED <<g_timebase, delta_vars, schedule_vars, startup_vars, stats_vars,
                   p_signal, p_cfg, p_g_keep_running, p_clock, p_i,
                   p_start_host, p_on_target, p_dispatch_target, p_current,
                   p_sleep_ns, p_note_is_on, p_sent_notes, p_stats, p_sent,
                   p_reports, p_exit_len>>

\* After sleep_until_host: if (!g_keep_running) break;
PulseWoke ==
    /\ p_pc = "woke"
    /\ IF p_g_keep_running = 1
       THEN p_pc' = "note_on" /\ UNCHANGED p_exit_len
       ELSE p_pc' = "cleanup" /\ p_exit_len' = Len(p_sent)
    /\ UNCHANGED <<g_timebase, delta_vars, schedule_vars, startup_vars, stats_vars,
                   p_signal, p_cfg, p_g_keep_running, p_clock, p_i,
                   p_start_host, p_on_target, p_dispatch_target, p_current,
                   p_sleep_ns, p_note_is_on, p_sent_notes, p_stats, p_sent,
                   p_reports>>

\* Mutant: a failed send is followed by the next pass of the loop.
AfterSendFailure_continue == "loop"

\* Where main() goes when a scheduled send fails: break.
AfterSendFailure == "cleanup"

\* Mutant: the lateness is measured against the dispatch target.
LateNs_of_dispatch_target(dispatch_now) ==
    delta_ns_from_host(dispatch_now, p_dispatch_target)

\* late_ns = delta_ns_from_host(dispatch_now, on_target).
LateNs(dispatch_now) == delta_ns_from_host(dispatch_now, p_on_target)

\* dispatch_now, late_ns, the note-on send and, when it succeeded, the
\* bookkeeping up to the periodic stats_print.
PulseNoteOn ==
    /\ p_pc = "note_on"
    /\ \E adv \in AdvanceNs, status \in SendStatus :
         LET dispatch_now == p_clock + ns_to_host(adv)
             late_ns == LateNs(dispatch_now)
             sent == Append(p_sent, ShortMsg(p_on_target, NoteOnStatus,
                                p_cfg.note, p_cfg.velocity, status, "loop"))
             added == stats_add(p_stats, late_ns)
         IN  /\ p_clock' = dispatch_now
             /\ p_sent' = sent
             /\ IF status # 0
                THEN /\ p_pc' = AfterSendFailure
                     /\ p_exit_len' = Len(sent)
                     /\ UNCHANGED <<p_note_is_on, p_sent_notes, p_stats, p_reports>>
                ELSE /\ p_pc' = "note_off"
                     /\ p_note_is_on' = TRUE
                     /\ p_sent_notes' = p_sent_notes + 1
                     /\ IF p_cfg.report_every > 0
                           /\ (p_sent_notes + 1) % p_cfg.report_every = 0
                        THEN /\ p_reports' = p_reports \o stats_print(added, p_sent_notes + 1)
                             /\ p_stats' = stats_print_state(added)
                        ELSE /\ p_reports' = p_reports
                             /\ p_stats' = added
                     /\ UNCHANGED p_exit_len
    /\ UNCHANGED <<g_timebase, delta_vars, schedule_vars, startup_vars, stats_vars,
                   p_signal, p_cfg, p_g_keep_running, p_i, p_start_host,
                   p_on_target, p_dispatch_target, p_current, p_sleep_ns>>

\* Mutant: the note-off is scheduled one gate after the dispatch time.
OffTarget_from_dispatch(on_target) == p_clock + gate_host

\* off_target of an on_target.
OffTarget(on_target) == on_target + gate_host

\* Mutant: a cancelled run leaves the loop before the note-off and forgets
\* the note.
PulseNoteOff_unless_cancelled ==
    /\ p_pc = "note_off"
    /\ \E status \in SendStatus :
         LET sent == Append(p_sent, ShortMsg(OffTarget(p_on_target), NoteOffStatus,
                                p_cfg.note, 0, status, "loop"))
         IN  IF p_g_keep_running = 0
             THEN /\ p_pc' = "cleanup"
                  /\ p_exit_len' = Len(p_sent)
                  /\ p_note_is_on' = FALSE
                  /\ UNCHANGED <<p_sent, p_i>>
             ELSE /\ p_sent' = sent
                  /\ IF status # 0
                     THEN /\ p_pc' = AfterSendFailure
                          /\ p_exit_len' = Len(sent)
                          /\ UNCHANGED <<p_note_is_on, p_i>>
                     ELSE /\ p_pc' = "loop"
                          /\ p_note_is_on' = FALSE
                          /\ p_i' = p_i + 1
                          /\ UNCHANGED p_exit_len
    /\ UNCHANGED <<g_timebase, delta_vars, schedule_vars, startup_vars, stats_vars,
                   p_signal, p_cfg, p_g_keep_running, p_clock, p_start_host,
                   p_on_target, p_dispatch_target, p_current, p_sleep_ns,
                   p_sent_notes, p_stats, p_reports>>

\* The note-off send, and ++i when it succeeded.
PulseNoteOff ==
    /\ p_pc = "note_off"
    /\ \E status \in SendStatus :
         LET sent == Append(p_sent, ShortMsg(OffTarget(p_on_target), NoteOffStatus,
                                p_cfg.note, 0, status, "loop"))
         IN  /\ p_sent' = sent
             /\ IF status # 0
                THEN /\ p_pc' = AfterSendFailure
                     /\ p_exit_len' = Len(sent)
                     /\ UNCHANGED <<p_note_is_on, p_i>>
                ELSE /\ p_pc' = "loop"
                     /\ p_note_is_on' = FALSE
                     /\ p_i' = p_i + 1
                     /\ UNCHANGED p_exit_len
    /\ UNCHANGED <<g_timebase, delta_vars, schedule_vars, startup_vars, stats_vars,
                   p_signal, p_cfg, p_g_keep_running, p_clock, p_start_host,
                   p_on_target, p_dispatch_target, p_current, p_sleep_ns,
                   p_sent_notes, p_stats, p_reports>>

\* A cleanup message sent at now_host(); the status send_short_at returns is
\* discarded.
CleanupMsg(now, status, data1) == ShortMsg(now, status, data1, 0, "ignored", "cleanup")

\* Mutant: the cleanup sends its note-off whether or not a note is held.
PulseCleanupOff_always ==
    /\ p_pc = "cleanup"
    /\ \E adv \in AdvanceNs :
         LET now == p_clock + ns_to_host(adv)
         IN  /\ p_clock' = now
             /\ p_sent' = Append(p_sent, CleanupMsg(now, NoteOffStatus, p_cfg.note))
    /\ p_pc' = "cc123"
    /\ UNCHANGED <<g_timebase, delta_vars, schedule_vars, startup_vars, stats_vars,
                   p_signal, p_cfg, p_g_keep_running, p_i, p_start_host,
                   p_on_target, p_dispatch_target, p_current, p_sleep_ns,
                   p_note_is_on, p_sent_notes, p_stats, p_reports, p_exit_len>>

\* After the loop: if (note_is_on) send the note-off now.
PulseCleanupOff ==
    /\ p_pc = "cleanup"
    /\ \E adv \in AdvanceNs :
         LET now == p_clock + ns_to_host(adv)
         IN  /\ p_clock' = now
             /\ p_sent' = IF p_note_is_on
                          THEN Append(p_sent, CleanupMsg(now, NoteOffStatus, p_cfg.note))
                          ELSE p_sent
    /\ p_pc' = "cc123"
    /\ UNCHANGED <<g_timebase, delta_vars, schedule_vars, startup_vars, stats_vars,
                   p_signal, p_cfg, p_g_keep_running, p_i, p_start_host,
                   p_on_target, p_dispatch_target, p_current, p_sleep_ns,
                   p_note_is_on, p_sent_notes, p_stats, p_reports, p_exit_len>>

\* A controller message of the cleanup.
SendController(controller, next_pc) ==
    /\ p_sent' = Append(p_sent, CleanupMsg(p_clock, ControlStatus, controller))
    /\ p_pc' = next_pc
    /\ UNCHANGED <<g_timebase, delta_vars, schedule_vars, startup_vars, stats_vars,
                   p_signal, p_cfg, p_g_keep_running, p_clock, p_i,
                   p_start_host, p_on_target, p_dispatch_target, p_current,
                   p_sleep_ns, p_note_is_on, p_sent_notes, p_stats, p_reports,
                   p_exit_len>>

PulseCleanup123 == p_pc = "cc123" /\ SendController(123, "cc120")

PulseCleanup120 == p_pc = "cc120" /\ SendController(120, "report")

\* stats_print(&stats, sent_notes) and the end of main().
PulseFinalReport ==
    /\ p_pc = "report"
    /\ p_reports' = p_reports \o stats_print(p_stats, p_sent_notes)
    /\ p_stats' = stats_print_state(p_stats)
    /\ p_pc' = "done"
    /\ UNCHANGED <<g_timebase, delta_vars, schedule_vars, startup_vars, stats_vars,
                   p_signal, p_cfg, p_g_keep_running, p_clock, p_i,
                   p_start_host, p_on_target, p_dispatch_target, p_current,
                   p_sleep_ns, p_note_is_on, p_sent_notes, p_sent,
                   p_exit_len>>

NextPulse ==
    \/ PulseSignal
    \/ PulseLoop
    \/ SleepTest
    \/ SleepRead
    \/ SleepNanosleep
    \/ SleepInterrupted
    \/ PulseWoke
    \/ PulseNoteOn
    \/ PulseNoteOff
    \/ PulseCleanupOff
    \/ PulseCleanup123
    \/ PulseCleanup120
    \/ PulseFinalReport

(***************************************************************************)
(* midi_stats: IntervalStats, JitterStats, SeriesStats.  The samples       *)
(* fields are history: the values handed to the add functions, in order;   *)
(* the program keeps the aggregates only.  The long double sums are exact  *)
(* for the values of the model and are kept as integers.                   *)
(***************************************************************************)
interval_init ==
    [min_ns |-> INT64_MAX, max_ns |-> INT64_MIN, sum_ns |-> 0, sum_sq_ns |-> 0,
     count |-> 0, samples |-> <<>>]

\* Mutant: the maximum is updated only when the minimum was not.
interval_add_else_if(stats, value_ns) ==
    [min_ns |-> IF value_ns < stats.min_ns THEN value_ns ELSE stats.min_ns,
     max_ns |-> IF value_ns < stats.min_ns THEN stats.max_ns
                ELSE IF value_ns > stats.max_ns THEN value_ns ELSE stats.max_ns,
     sum_ns |-> stats.sum_ns + value_ns,
     sum_sq_ns |-> stats.sum_sq_ns + value_ns * value_ns,
     count |-> stats.count + 1,
     samples |-> Append(stats.samples, value_ns)]

interval_add(stats, value_ns) ==
    [min_ns |-> IF value_ns < stats.min_ns THEN value_ns ELSE stats.min_ns,
     max_ns |-> IF value_ns > stats.max_ns THEN value_ns ELSE stats.max_ns,
     sum_ns |-> stats.sum_ns + value_ns,
     sum_sq_ns |-> stats.sum_sq_ns + value_ns * value_ns,
     count |-> stats.count + 1,
     samples |-> Append(stats.samples, value_ns)]

jitter_init ==
    [min_ns |-> INT64_MAX, max_ns |-> INT64_MIN, sum_ns |-> 0, sum_abs_ns |-> 0,
     sum_sq_ns |-> 0, count |-> 0, samples |-> <<>>]

jitter_add(stats, value_ns) ==
    [min_ns |-> IF value_ns < stats.min_ns THEN value_ns ELSE stats.min_ns,
     max_ns |-> IF value_ns > stats.max_ns THEN value_ns ELSE stats.max_ns,
     sum_ns |-> stats.sum_ns + value_ns,
     sum_abs_ns |-> stats.sum_abs_ns + fabsl(value_ns),
     sum_sq_ns |-> stats.sum_sq_ns + value_ns * value_ns,
     count |-> stats.count + 1,
     samples |-> Append(stats.samples, value_ns)]

series_init ==
    [have_previous |-> FALSE, previous_timestamp |-> 0,
     have_reference_interval |-> FALSE, reference_interval_ns |-> 0,
     events_seen |-> 0, intervals_seen |-> 0,
     interval |-> interval_init, jitter |-> jitter_init]

\* Mutant: the reference follows the last interval.
series_add_event_moving_reference(series, timestamp) ==
    IF ~series.have_previous
    THEN [series EXCEPT !.have_previous = TRUE,
                        !.previous_timestamp = timestamp,
                        !.events_seen = 1]
    ELSE LET interval_ns_ == delta_ns_from_host(timestamp, series.previous_timestamp)
             reference == IF ~series.have_reference_interval
                          THEN interval_ns_
                          ELSE series.reference_interval_ns
             jitter_ns == interval_ns_ - reference
         IN  [have_previous |-> TRUE,
              previous_timestamp |-> timestamp,
              have_reference_interval |-> TRUE,
              reference_interval_ns |-> interval_ns_,
              events_seen |-> series.events_seen + 1,
              intervals_seen |-> series.intervals_seen + 1,
              interval |-> interval_add(series.interval, interval_ns_),
              jitter |-> jitter_add(series.jitter, jitter_ns)]

\* Mutant: the interval that sets the reference adds no jitter sample.
series_add_event_skip_first_jitter(series, timestamp) ==
    IF ~series.have_previous
    THEN [series EXCEPT !.have_previous = TRUE,
                        !.previous_timestamp = timestamp,
                        !.events_seen = 1]
    ELSE LET interval_ns_ == delta_ns_from_host(timestamp, series.previous_timestamp)
             reference == IF ~series.have_reference_interval
                          THEN interval_ns_
                          ELSE series.reference_interval_ns
             jitter_ns == interval_ns_ - reference
         IN  [have_previous |-> TRUE,
              previous_timestamp |-> timestamp,
              have_reference_interval |-> TRUE,
              reference_interval_ns |-> reference,
              events_seen |-> series.events_seen + 1,
              intervals_seen |-> series.intervals_seen + 1,
              interval |-> interval_add(series.interval, interval_ns_),
              jitter |-> IF series.have_reference_interval
                         THEN jitter_add(series.jitter, jitter_ns)
                         ELSE series.jitter]

\* Mutant: the first event counts as an interval.
series_add_event_counts_first(series, timestamp) ==
    IF ~series.have_previous
    THEN [series EXCEPT !.have_previous = TRUE,
                        !.previous_timestamp = timestamp,
                        !.events_seen = 1,
                        !.intervals_seen = 1]
    ELSE LET interval_ns_ == delta_ns_from_host(timestamp, series.previous_timestamp)
             reference == IF ~series.have_reference_interval
                          THEN interval_ns_
                          ELSE series.reference_interval_ns
             jitter_ns == interval_ns_ - reference
         IN  [have_previous |-> TRUE,
              previous_timestamp |-> timestamp,
              have_reference_interval |-> TRUE,
              reference_interval_ns |-> reference,
              events_seen |-> series.events_seen + 1,
              intervals_seen |-> series.intervals_seen + 1,
              interval |-> interval_add(series.interval, interval_ns_),
              jitter |-> jitter_add(series.jitter, jitter_ns)]

series_add_event(series, timestamp) ==
    IF ~series.have_previous
    THEN [series EXCEPT !.have_previous = TRUE,
                        !.previous_timestamp = timestamp,
                        !.events_seen = 1]
    ELSE LET interval_ns_ == delta_ns_from_host(timestamp, series.previous_timestamp)
             reference == IF ~series.have_reference_interval
                          THEN interval_ns_
                          ELSE series.reference_interval_ns
             jitter_ns == interval_ns_ - reference
         IN  [have_previous |-> TRUE,
              previous_timestamp |-> timestamp,
              have_reference_interval |-> TRUE,
              reference_interval_ns |-> reference,
              events_seen |-> series.events_seen + 1,
              intervals_seen |-> series.intervals_seen + 1,
              interval |-> interval_add(series.interval, interval_ns_),
              jitter |-> jitter_add(series.jitter, jitter_ns)]

(***************************************************************************)
(* midi_stats: the report.  A line is the record of the values printf      *)
(* formats; a mean is kept as its sum and count, a standard deviation as   *)
(* the clamped variance count * sum_sq - sum^2 over count^2.               *)
(***************************************************************************)
stats_stddev(sum, sum_sq, count) ==
    IF count = 0
    THEN [num |-> 0, den |-> 1]
    ELSE LET variance == count * sum_sq - sum * sum
         IN  [num |-> IF variance < 0 THEN 0 ELSE variance, den |-> count * count]

print_series_report(label, series) ==
    IF series.interval.count = 0 \/ series.jitter.count = 0
    THEN [label |-> label, line |-> "insufficient data"]
    ELSE [label |-> label, line |-> "intervals",
          intervals |-> series.intervals_seen,
          interval_mean |-> <<series.interval.sum_ns, series.interval.count>>,
          interval_std |-> stats_stddev(series.interval.sum_ns,
                              series.interval.sum_sq_ns, series.interval.count),
          interval_min |-> series.interval.min_ns,
          interval_max |-> series.interval.max_ns,
          reference |-> series.reference_interval_ns,
          jitter_mean |-> <<series.jitter.sum_ns, series.jitter.count>>,
          jitter_abs_mean |-> <<series.jitter.sum_abs_ns, series.jitter.count>>,
          jitter_std |-> stats_stddev(series.jitter.sum_ns,
                            series.jitter.sum_sq_ns, series.jitter.count),
          jitter_min |-> series.jitter.min_ns,
          jitter_max |-> series.jitter.max_ns]

\* Mutant: the lateness line is written whatever the count.
print_lateness_report_unguarded(stats) ==
    [line |-> "lateness",
     mean |-> <<stats.sum_ns, stats.count>>,
     abs_mean |-> <<stats.sum_abs_ns, stats.count>>,
     std |-> stats_stddev(stats.sum_ns, stats.sum_sq_ns, stats.count),
     min |-> stats.min_ns, max |-> stats.max_ns, samples |-> stats.count]

print_lateness_report(stats) ==
    IF stats.count = 0
    THEN [line |-> "no timestamped events"]
    ELSE [line |-> "lateness",
          mean |-> <<stats.sum_ns, stats.count>>,
          abs_mean |-> <<stats.sum_abs_ns, stats.count>>,
          std |-> stats_stddev(stats.sum_ns, stats.sum_sq_ns, stats.count),
          min |-> stats.min_ns, max |-> stats.max_ns, samples |-> stats.count]

print_report(state, final_report) ==
    [final |-> final_report,
     events |-> state.events_seen,
     timestamped |-> state.timestamped_events,
     untimestamped |-> state.untimestamped_events,
     ts_ratio |-> IF state.events_seen > 0
                  THEN <<state.timestamped_events * 100, state.events_seen>>
                  ELSE <<0, 1>>,
     effective_event_time |-> print_series_report("effective_event_time",
                                  state.effective_series),
     timestamp_only |-> print_series_report("timestamp_only",
                            state.timestamped_series),
     arrival_vs_timestamp |-> print_lateness_report(state.arrival_vs_timestamp)]

\* Mutant: a report starts a new measurement window.
print_report_state_reset(state) ==
    [state EXCEPT !.effective_series = series_init,
                  !.timestamped_series = series_init,
                  !.arrival_vs_timestamp = jitter_init]

\* The RuntimeState after print_report: it takes a const RuntimeState *.
print_report_state(state) == state

(***************************************************************************)
(* midi_stats: on_matching_event, up to the test for the report.           *)
(***************************************************************************)
\* Mutant: the effective timestamp is always the arrival time.
EffectiveTimestamp_arrival(packet_timestamp, arrival_timestamp) == arrival_timestamp

EffectiveTimestamp(packet_timestamp, arrival_timestamp) ==
    IF packet_timestamp # 0 THEN packet_timestamp ELSE arrival_timestamp

\* Mutant: an event without a hardware timestamp is counted as timestamped.
CountEvent_swapped(state, packet_timestamp, arrival_timestamp) ==
    IF packet_timestamp # 0
    THEN [state EXCEPT
            !.events_seen = @ + 1,
            !.timestamped_events = @ + 1,
            !.timestamped_series = series_add_event(@, packet_timestamp),
            !.arrival_vs_timestamp =
                jitter_add(@, delta_ns_from_host(arrival_timestamp, packet_timestamp))]
    ELSE [state EXCEPT !.events_seen = @ + 1, !.timestamped_events = @ + 1]

\* events_seen and the branch on has_packet_timestamp.
CountEvent(state, packet_timestamp, arrival_timestamp) ==
    IF packet_timestamp # 0
    THEN [state EXCEPT
            !.events_seen = @ + 1,
            !.timestamped_events = @ + 1,
            !.timestamped_series = series_add_event(@, packet_timestamp),
            !.arrival_vs_timestamp =
                jitter_add(@, delta_ns_from_host(arrival_timestamp, packet_timestamp))]
    ELSE [state EXCEPT !.events_seen = @ + 1, !.untimestamped_events = @ + 1]

\* Mutant: the run stops with the event after the count-th.
count_reached_after(state, count) == count > 0 /\ state.events_seen > count

\* The test that ends the run: count > 0 and events_seen >= count.
count_reached(state, count) == count > 0 /\ state.events_seen >= count

\* The RuntimeState on_matching_event leaves.
on_matching_event(state, packet_timestamp, arrival_timestamp) ==
    LET counted == CountEvent(state, packet_timestamp, arrival_timestamp)
    IN  [counted EXCEPT !.effective_series =
            series_add_event(@, EffectiveTimestamp(packet_timestamp, arrival_timestamp))]

(***************************************************************************)
(* midi_stats: the classifier.  Buffers are sequences of bytes 0..255; the *)
(* scan index i is 0-based as in the source, data[i] is buffer[i + 1].     *)
(***************************************************************************)
midi_channel_message_length(status) ==
    LET hi == (status \div 16) * 16
    IN  IF hi = 192 \/ hi = 208 THEN 2 ELSE 3

midi_system_message_length(status) ==
    IF status \in {241, 243} THEN 2
    ELSE IF status = 242 THEN 3
    ELSE IF status \in {246, 248, 250, 251, 252, 254, 255} THEN 1
    ELSE 0

\* Mutant: the loop goes on while the byte is 0xF7.
SysexScan_inverted(data, i) ==
    IF i < Len(data) /\ data[i + 1] = 247 THEN i + 1 ELSE i

RECURSIVE SysexScan(_, _)
\* while (i < length && data[i] != 0xF7) i += 1;
SysexScan(data, i) ==
    IF i < Len(data) /\ data[i + 1] # 247 THEN SysexScan(data, i + 1) ELSE i

\* Mutant: a velocity of 0 qualifies too.
Qualifies_any_velocity(data, i, channel_filter) ==
    LET status == data[i + 1]
    IN  /\ (status % 16) + 1 = channel_filter
        /\ (status \div 16) * 16 = 144
        /\ midi_channel_message_length(status) = 3

\* The test of a complete channel message at i for on_matching_event.
Qualifies(data, i, channel_filter) ==
    LET status == data[i + 1]
    IN  /\ (status % 16) + 1 = channel_filter
        /\ (status \div 16) * 16 = 144
        /\ midi_channel_message_length(status) = 3
        /\ data[i + 3] > 0

\* Mutant: an undefined system status is stepped over by its length of 0.
ScanPass_by_system_len(data, i, channel_filter) ==
    LET length == Len(data)
        status == data[i + 1]
        skip(n) == [i |-> i + n, break |-> FALSE, event |-> FALSE]
        stop == [i |-> i, break |-> TRUE, event |-> FALSE]
    IN  IF status < 128 THEN skip(1)
        ELSE IF status >= 240
        THEN IF status = 240
             THEN LET j == SysexScan(data, i + 1)
                  IN  [i |-> IF j < length THEN j + 1 ELSE j,
                       break |-> FALSE, event |-> FALSE]
             ELSE LET system_len == midi_system_message_length(status)
                  IN  IF i + system_len > length THEN stop
                      ELSE skip(system_len)
        ELSE LET msg_len == midi_channel_message_length(status)
             IN  IF i + msg_len > length THEN stop
                 ELSE [i |-> i + msg_len, break |-> FALSE,
                       event |-> Qualifies(data, i, channel_filter)]

\* Mutant: a message cut by the end of the buffer is stepped over byte by byte.
ScanPass_steps_over(data, i, channel_filter) ==
    LET length == Len(data)
        status == data[i + 1]
        skip(n) == [i |-> i + n, break |-> FALSE, event |-> FALSE]
    IN  IF status < 128 THEN skip(1)
        ELSE IF status >= 240
        THEN IF status = 240
             THEN LET j == SysexScan(data, i + 1)
                  IN  [i |-> IF j < length THEN j + 1 ELSE j,
                       break |-> FALSE, event |-> FALSE]
             ELSE LET system_len == midi_system_message_length(status)
                  IN  IF system_len = 0 THEN skip(1)
                      ELSE IF i + system_len > length THEN skip(1)
                      ELSE skip(system_len)
        ELSE LET msg_len == midi_channel_message_length(status)
             IN  IF i + msg_len > length THEN skip(1)
                 ELSE [i |-> i + msg_len, break |-> FALSE,
                       event |-> Qualifies(data, i, channel_filter)]

\* One pass of the while loop of process_packet_bytes at index i < length:
\* the next index, whether the loop is left by break, and whether
\* on_matching_event is called.
ScanPass(data, i, channel_filter) ==
    LET length == Len(data)
        status == data[i + 1]
        skip(n) == [i |-> i + n, break |-> FALSE, event |-> FALSE]
        stop == [i |-> i, break |-> TRUE, event |-> FALSE]
    IN  IF status < 128 THEN skip(1)
        ELSE IF status >= 240
        THEN IF status = 240
             THEN LET j == SysexScan(data, i + 1)
                  IN  [i |-> IF j < length THEN j + 1 ELSE j,
                       break |-> FALSE, event |-> FALSE]
             ELSE LET system_len == midi_system_message_length(status)
                  IN  IF system_len = 0 THEN skip(1)
                      ELSE IF i + system_len > length THEN stop
                      ELSE skip(system_len)
        ELSE LET msg_len == midi_channel_message_length(status)
             IN  IF i + msg_len > length THEN stop
                 ELSE [i |-> i + msg_len, break |-> FALSE,
                       event |-> Qualifies(data, i, channel_filter)]

\* The indices of data that one pass of the while loop at i < length reads:
\* the status byte, the bytes the sysex scan looks at, and the velocity of a
\* complete note-on on the channel.
PassReads(data, i, channel_filter) ==
    LET length == Len(data)
        status == data[i + 1]
    IN  {i}
        \cup (IF status = 240
              THEN {k \in (i + 1)..SysexScan(data, i + 1) : k < length}
              ELSE {})
        \cup (IF /\ status >= 128
                 /\ status < 240
                 /\ i + midi_channel_message_length(status) <= length
                 /\ (status % 16) + 1 = channel_filter
                 /\ (status \div 16) * 16 = 144
                 /\ midi_channel_message_length(status) = 3
              THEN {i + 2}
              ELSE {})

(***************************************************************************)
(* midi_stats: what the source delivers.  A packet list is a sequence of   *)
(* packets [timeStamp, data]; frags is history, the pieces the driver put  *)
(* into data.                                                              *)
(***************************************************************************)
RECURSIVE Flatten(_)
Flatten(frags) == IF frags = <<>> THEN <<>> ELSE Head(frags) \o Flatten(Tail(frags))

\* Complete messages: note-on ch 2, note-on ch 2 with velocity 0, note-on
\* ch 1, note-off ch 2, program change, song position, timing clock, sysex.
WellFormedMessages ==
    { <<145, 60, 100>>, <<145, 60, 0>>, <<144, 60, 100>>, <<129, 60, 0>>,
      <<193, 17>>, <<242, 16, 32>>, <<248>>, <<240, 17, 60, 247>> }

\* Pieces that are no complete message: a stray data byte, a note-on cut
\* after its status or after its note, a song position cut after its first
\* data byte, an open sysex, a sysex around the bytes of a note-on, a lone
\* end of sysex, an undefined status.
BrokenPieces ==
    { <<60>>, <<145>>, <<145, 60>>, <<242, 16>>, <<240, 17>>,
      <<240, 17, 145, 60, 100, 247>>, <<247>>, <<244>> }

Fragments == WellFormedMessages \cup BrokenPieces

\* What a note stream carries: one note-on, or note-on, note-off, note-on.
NoteFrags == { <<<<144, 60, 100>>>>, <<<<144, 60, 100>>, <<128, 60, 0>>, <<144, 62, 90>>>> }

ByteFrags == UNION { [1..n -> Fragments] : n \in 0..MaxFrags }

\* A message that the driver splits over two packets: the buffers that end
\* inside a message, and the buffers that go on with its data bytes.
SplitFirst ==
    { <<<<145, 60>>>>, <<<<145, 60, 100>>, <<145>>>>,
      <<<<145, 60, 100>>, <<145, 60>>>>, <<<<242, 16>>>> }

SplitSecond ==
    { <<<<100>>, <<145, 60, 100>>>>, <<<<60, 100>>>>, <<<<32>>, <<145, 60, 100>>>> }

\* MIDITimeStamp of a packet delivered when the clock reads clock: none, or
\* one that lies just after or just before the callback's arrival reading.
Stamps(clock) == {0, clock + 11}

\* Ticks between the delivery and the callback's now_host().
ArrivalAdvance == {10, 13}

Packets(frag_lists, clock) ==
    { [timeStamp |-> t, data |-> Flatten(f), frags |-> f] :
        t \in Stamps(clock), f \in frag_lists }

\* The packet lists the source may deliver next.
Traffic(source, clock, budget) ==
    IF source = "bytes"
    THEN IF budget < 2 THEN {}
         ELSE { <<p>> : p \in Packets(ByteFrags, clock) }
              \cup { <<p, q>> : p \in Packets(SplitFirst, clock),
                                q \in Packets(SplitSecond, clock + 20) }
    ELSE { <<p>> : p \in Packets(NoteFrags, clock) }
         \cup (IF budget >= 2
               THEN { <<p, q>> : p \in Packets(NoteFrags, clock),
                                 q \in Packets(NoteFrags, clock + 20) }
               ELSE {})

(***************************************************************************)
(* midi_stats: state after MIDIPortConnectSource, the handlers installed.  *)
(***************************************************************************)
StatsConfigs ==
    { [channel |-> 1, count |-> 0, report_every |-> 2],
      [channel |-> 1, count |-> 2, report_every |-> 3] }

ClassifyConfigs ==
    { [channel |-> ch, count |-> 0, report_every |-> 1] : ch \in {1, 2} }

RuntimeState0 ==
    [events_seen |-> 0, timestamped_events |-> 0, untimestamped_events |-> 0,
     effective_series |-> series_init, timestamped_series |-> series_init,
     arrival_vs_timestamp |-> jitter_init]

InitReceiver(source, configs, budget, timebases) ==
    /\ g_timebase \in timebases
    /\ s_source = source
    /\ s_cfg \in configs
    /\ s_budget = budget
    /\ s_g_keep_running = 1
    /\ s_state = RuntimeState0
    /\ s_clock = InitialClock
    /\ cb_pc = "idle"
    /\ cb_pktlist = <<>>
    /\ cb_n = 0
    /\ cb_arrival = 0
    /\ cb_i = 0
    /\ m_pc = "poll"
    /\ s_reports = <<>>
    /\ s_calls = <<>>

InitStats == InitReceiver("notes", StatsConfigs, MaxPackets, Timebases)

InitClassify ==
    InitReceiver("bytes", ClassifyConfigs, 2, {[numer |-> 125, denom |-> 3]})

\* on_signal of midi_stats.
StatsSignal ==
    /\ m_pc \in {"poll", "disconnect", "report", "flush"}
    /\ s_g_keep_running = 1
    /\ s_g_keep_running' = 0
    /\ UNCHANGED <<g_timebase, delta_vars, schedule_vars, startup_vars, pulse_vars, s_source, s_cfg, s_budget, s_state, s_clock,
                   cb_pc, cb_pktlist, cb_n, cb_arrival, cb_i, m_pc, s_reports,
                   s_calls>>

\* The driver's thread calls midi_read_proc with a packet list.
CbDeliver ==
    /\ cb_pc = "idle"
    /\ m_pc = "poll"
    /\ s_budget > 0
    /\ \E pktlist \in Traffic(s_source, s_clock, s_budget) :
         /\ cb_pktlist' = pktlist
         /\ s_budget' = s_budget - Len(pktlist)
    /\ cb_pc' = "enter"
    /\ UNCHANGED <<g_timebase, delta_vars, schedule_vars, startup_vars, pulse_vars, s_source, s_cfg, s_g_keep_running, s_state,
                   s_clock, cb_n, cb_arrival, cb_i, m_pc, s_reports, s_calls>>

\* The driver's thread runs until the process ends: a midi_read_proc that
\* was called goes on while main() disconnects and reports, up to its return.
\* midi_read_proc: the test on entry.
CbEnter ==
    /\ cb_pc = "enter"
    /\ m_pc # "done"
    /\ IF s_g_keep_running = 0
       THEN cb_pc' = "idle" /\ UNCHANGED cb_n
       ELSE cb_pc' = "packet" /\ cb_n' = 0
    /\ UNCHANGED <<g_timebase, delta_vars, schedule_vars, startup_vars, pulse_vars, s_source, s_cfg, s_budget, s_g_keep_running,
                   s_state, s_clock, cb_pktlist, cb_arrival, cb_i, m_pc,
                   s_reports, s_calls>>

\* midi_read_proc: the for test, arrival_timestamp, the call of
\* process_packet_bytes.
CbPacket ==
    /\ cb_pc = "packet"
    /\ m_pc # "done"
    /\ IF cb_n < Len(cb_pktlist) /\ s_g_keep_running = 1
       THEN \E adv \in ArrivalAdvance :
              /\ s_clock' = s_clock + adv
              /\ cb_arrival' = s_clock + adv
              /\ cb_i' = 0
              /\ cb_pc' = "scan"
              /\ s_calls' = Append(s_calls,
                     [packet |-> cb_pktlist[cb_n + 1], arrival |-> s_clock + adv,
                      forwarded |-> <<>>, returned |-> FALSE, scanned |-> 0])
       ELSE /\ cb_pc' = "idle"
            /\ UNCHANGED <<s_clock, cb_arrival, cb_i, s_calls>>
    /\ UNCHANGED <<g_timebase, delta_vars, schedule_vars, startup_vars, pulse_vars, s_source, s_cfg, s_budget, s_g_keep_running,
                   s_state, cb_pktlist, cb_n, m_pc, s_reports>>

\* process_packet_bytes: the while test and one pass of its body, with the
\* whole of on_matching_event when the message qualifies; at the end of the
\* buffer or at a break, the return and packet = MIDIPacketNext(packet), ++i.
CbScan ==
    /\ cb_pc = "scan"
    /\ m_pc # "done"
    /\ LET packet == cb_pktlist[cb_n + 1]
           data == packet.data
           call == Len(s_calls)
       IN  IF cb_i >= Len(data) \/ ScanPass(data, cb_i, s_cfg.channel).break
           THEN /\ cb_pc' = "packet"
                /\ cb_n' = cb_n + 1
                /\ s_calls' = [s_calls EXCEPT ![call].returned = TRUE,
                                               ![call].scanned = cb_i]
                /\ UNCHANGED <<cb_i, s_state, s_reports, s_g_keep_running>>
           ELSE LET pass == ScanPass(data, cb_i, s_cfg.channel)
                    state == on_matching_event(s_state, packet.timeStamp, cb_arrival)
                IN  /\ cb_i' = pass.i
                    /\ IF pass.event
                       THEN /\ s_calls' = [s_calls EXCEPT ![call].forwarded =
                                              Append(@, cb_i)]
                            /\ IF s_cfg.report_every > 0
                                  /\ state.events_seen % s_cfg.report_every = 0
                               THEN /\ s_reports' =
                                         Append(s_reports, print_report(state, FALSE))
                                    /\ s_state' = print_report_state(state)
                               ELSE /\ s_reports' = s_reports
                                    /\ s_state' = state
                            /\ s_g_keep_running' =
                                 IF count_reached(state, s_cfg.count)
                                 THEN 0
                                 ELSE s_g_keep_running
                       ELSE UNCHANGED <<s_state, s_calls, s_reports, s_g_keep_running>>
                    /\ UNCHANGED <<cb_pc, cb_n>>
    /\ UNCHANGED <<g_timebase, delta_vars, schedule_vars, startup_vars, pulse_vars, s_source, s_cfg, s_budget, s_clock, cb_pktlist,
                   cb_arrival, m_pc>>

\* main of midi_stats: one turn of while (g_keep_running) nanosleep(100 ms).
MainPoll ==
    /\ m_pc = "poll"
    /\ s_g_keep_running = 0
    /\ m_pc' = "disconnect"
    /\ UNCHANGED <<g_timebase, delta_vars, schedule_vars, startup_vars, pulse_vars, s_source, s_cfg, s_budget, s_g_keep_running,
                   s_state, s_clock, cb_pc, cb_pktlist, cb_n, cb_arrival, cb_i,
                   s_reports, s_calls>>

\* MIDIPortDisconnectSource, MIDIPortDispose, MIDIClientDispose.
MainDisconnect ==
    /\ m_pc = "disconnect"
    /\ m_pc' = "report"
    /\ UNCHANGED <<g_timebase, delta_vars, schedule_vars, startup_vars, pulse_vars, s_source, s_cfg, s_budget, s_g_keep_running,
                   s_state, s_clock, cb_pc, cb_pktlist, cb_n, cb_arrival, cb_i,
                   s_reports, s_calls>>

\* print_report(&state, true), up to its last printf.
MainReport ==
    /\ m_pc = "report"
    /\ s_reports' = Append(s_reports, print_report(s_state, TRUE))
    /\ s_state' = print_report_state(s_state)
    /\ m_pc' = "flush"
    /\ UNCHANGED <<g_timebase, delta_vars, schedule_vars, startup_vars, pulse_vars, s_source, s_cfg, s_budget, s_g_keep_running,
                   s_clock, cb_pc, cb_pktlist, cb_n, cb_arrival, cb_i,
                   s_calls>>

\* The fflush(stdout) that ends print_report, and return 0: the process ends.
MainReturn ==
    /\ m_pc = "flush"
    /\ m_pc' = "done"
    /\ UNCHANGED <<g_timebase, delta_vars, schedule_vars, startup_vars, pulse_vars, s_source, s_cfg, s_budget, s_g_keep_running,
                   s_state, s_clock, cb_pc, cb_pktlist, cb_n, cb_arrival, cb_i,
                   s_reports, s_calls>>

NextCallback ==
    \/ CbDeliver
    \/ CbEnter
    \/ CbPacket
    \/ CbScan

NextStats ==
    \/ StatsSignal
    \/ CbDeliver
    \/ CbEnter
    \/ CbPacket
    \/ CbScan
    \/ MainPoll
    \/ MainDisconnect
    \/ MainReport
    \/ MainReturn

(***************************************************************************)
(* The specifications: each tool alone, the classifier alone on one        *)
(* buffer, and either tool.  The tool that does not run is off.            *)
(***************************************************************************)
\* main() of midi_pulse has not reached its loop.
PulseNotStarted ==
    /\ p_pc = "off"
    /\ p_g_keep_running = 1
    /\ p_clock = InitialClock
    /\ p_i = 0
    /\ p_start_host = 0
    /\ p_on_target = 0
    /\ p_dispatch_target = 0
    /\ p_current = 0
    /\ p_sleep_ns = 0
    /\ p_note_is_on = FALSE
    /\ p_sent_notes = 0
    /\ p_stats = stats_init
    /\ p_sent = <<>>
    /\ p_reports = <<>>
    /\ p_exit_len = 0
    /\ p_signal = NoSignal

PulseOff ==
    /\ p_cfg = [count |-> 0, interval_ns |-> 1000000, gate_num |-> 1,
                gate_den |-> 4, report_every |-> 0, channel |-> 1, note |-> 60,
                velocity |-> 100]
    /\ PulseNotStarted

\* main() of midi_stats has not connected its port.
StatsNotStarted ==
    /\ s_source = "none"
    /\ s_budget = 0
    /\ s_g_keep_running = 1
    /\ s_state = RuntimeState0
    /\ s_clock = InitialClock
    /\ cb_pc = "off"
    /\ cb_pktlist = <<>>
    /\ cb_n = 0
    /\ cb_arrival = 0
    /\ cb_i = 0
    /\ m_pc = "off"
    /\ s_reports = <<>>
    /\ s_calls = <<>>

StatsOff ==
    /\ s_cfg = [channel |-> 1, count |-> 0, report_every |-> 0]
    /\ StatsNotStarted

\* No caller of delta_ns_from_host apart from the tools.
DeltaOff ==
    /\ d_pc = "off"
    /\ d_actual = 0
    /\ d_target = 0
    /\ d_delta = 0
    /\ d_reverse = 0

\* The schedule arithmetic is not followed on its own.
ScheduleOff ==
    /\ w_pc = "off"
    /\ w_cfg = [interval_ns |-> 0, gate_num |-> 0, gate_den |-> 1]
    /\ w_start_host = 0
    /\ w_interval_host = 0
    /\ w_gate_host = 0
    /\ w_i = 0
    /\ w_on_target = 0
    /\ w_off_target = 0

\* The start of main() is over, its calls are not kept.
StartupDone ==
    /\ b_tool = "none"
    /\ b_pc = "run"
    /\ b_status = -1
    /\ b_log = <<>>

(***************************************************************************)
(* delta_ns_from_host on its own: any two ticks, under the timebases of the *)
(* tools and one whose tick is shorter than a nanosecond.                   *)
(***************************************************************************)
DeltaTimebases == Timebases \cup {[numer |-> 1, denom |-> 3]}

InitDelta ==
    /\ g_timebase \in DeltaTimebases
    /\ d_pc = "call"
    /\ d_actual \in 0..MaxTick
    /\ d_target \in 0..MaxTick
    /\ d_delta = 0
    /\ d_reverse = 0

\* delta_ns_from_host(actual, target)
DeltaCall ==
    /\ d_pc = "call"
    /\ d_delta' = delta_ns_from_host(d_actual, d_target)
    /\ d_pc' = "reverse"
    /\ UNCHANGED <<g_timebase, pulse_vars, stats_vars, startup_vars, schedule_vars, d_actual,
                   d_target, d_reverse>>

\* delta_ns_from_host(target, actual)
DeltaReverse ==
    /\ d_pc = "reverse"
    /\ d_reverse' = delta_ns_from_host(d_target, d_actual)
    /\ d_pc' = "done"
    /\ UNCHANGED <<g_timebase, pulse_vars, stats_vars, startup_vars, schedule_vars, d_actual,
                   d_target, d_delta>>

NextDelta == DeltaCall \/ DeltaReverse

(***************************************************************************)
(* The start of main() of either tool, from mach_timebase_info to the      *)
(* state in which the run begins.  b_log keeps the calls made on the way.  *)
(***************************************************************************)
\* What mach_timebase_info may leave in g_timebase: a timebase, or the zeros
\* it started with, or a zero denominator.
StartupTimebases ==
    Timebases \cup {[numer |-> 0, denom |-> 0], [numer |-> 1, denom |-> 0]}

InitStartup ==
    /\ g_timebase = [numer |-> 0, denom |-> 0]
    /\ b_tool \in {"midi_pulse", "midi_stats"}
    /\ b_pc = "timebase"
    /\ b_status = -1
    /\ b_log = <<>>
    /\ IF b_tool = "midi_pulse"
       THEN p_cfg \in PulseConfigs /\ PulseNotStarted /\ StatsOff
       ELSE s_cfg \in StatsConfigs /\ StatsNotStarted /\ PulseOff

\* Mutant: the timebase is refused when its numerator is 0.
timebase_unreadable_numer(timebase) == timebase.numer = 0

\* if (g_timebase.denom == 0)
timebase_unreadable(timebase) == timebase.denom = 0

\* return 1 after a failed step.
StartupFails(log) ==
    /\ b_pc' = "exit"
    /\ b_status' = 1
    /\ b_log' = log

\* mach_timebase_info(&g_timebase) and the test of its denominator.
StartTimebase ==
    /\ b_pc = "timebase"
    /\ \E timebase \in StartupTimebases :
         /\ g_timebase' = timebase
         /\ IF timebase_unreadable(timebase)
            THEN StartupFails(Append(b_log, "mach_timebase_info"))
            ELSE /\ b_pc' = "resolve"
                 /\ b_log' = Append(b_log, "mach_timebase_info")
                 /\ UNCHANGED b_status
    /\ UNCHANGED <<pulse_vars, stats_vars, delta_vars, schedule_vars, b_tool>>

\* resolve_destination or resolve_source.
StartResolve ==
    /\ b_pc = "resolve"
    /\ \E found \in BOOLEAN :
         IF found
         THEN /\ b_pc' = "client"
              /\ b_log' = Append(b_log, "resolve")
              /\ UNCHANGED b_status
         ELSE StartupFails(Append(b_log, "resolve"))
    /\ UNCHANGED <<g_timebase, pulse_vars, stats_vars, delta_vars, schedule_vars, b_tool>>

\* MIDIClientCreate.
StartClient ==
    /\ b_pc = "client"
    /\ \E status \in SendStatus :
         IF status = 0
         THEN /\ b_pc' = "port"
              /\ b_log' = Append(b_log, "MIDIClientCreate")
              /\ UNCHANGED b_status
         ELSE StartupFails(Append(b_log, "MIDIClientCreate"))
    /\ UNCHANGED <<g_timebase, pulse_vars, stats_vars, delta_vars, schedule_vars, b_tool>>

\* MIDIOutputPortCreate or MIDIInputPortCreate.
StartPort ==
    /\ b_pc = "port"
    /\ \E status \in SendStatus :
         IF status = 0
         THEN /\ b_pc' = IF b_tool = "midi_pulse" THEN "derive" ELSE "connect"
              /\ b_log' = Append(b_log, "MIDIPortCreate")
              /\ UNCHANGED b_status
         ELSE StartupFails(b_log \o <<"MIDIPortCreate", "MIDIClientDispose">>)
    /\ UNCHANGED <<g_timebase, pulse_vars, stats_vars, delta_vars, schedule_vars, b_tool>>

\* midi_pulse: the handlers, the values derived from cfg by ns_to_host,
\* start_host; the loop is next.
StartDerive ==
    /\ b_pc = "derive"
    /\ b_pc' = "run"
    /\ b_log' = b_log \o <<"signal", "ns_to_host">>
    /\ p_pc' = "loop"
    /\ p_start_host' = p_clock + ns_to_host(LEAD_IN_NS)
    /\ UNCHANGED <<g_timebase, stats_vars, delta_vars, schedule_vars, b_tool, b_status, p_cfg,
                   p_g_keep_running, p_clock, p_i, p_on_target, p_dispatch_target,
                   p_current, p_sleep_ns, p_note_is_on, p_sent_notes, p_stats,
                   p_sent, p_reports, p_exit_len, p_signal>>

\* midi_stats: MIDIPortConnectSource and the handlers; the source may
\* deliver, main() polls.
StartConnect ==
    /\ b_pc = "connect"
    /\ \E status \in SendStatus :
         IF status = 0
         THEN /\ b_pc' = "run"
              /\ b_log' = b_log \o <<"MIDIPortConnectSource", "signal">>
              /\ s_source' = "notes"
              /\ s_budget' = MaxPackets
              /\ cb_pc' = "idle"
              /\ m_pc' = "poll"
              /\ UNCHANGED b_status
         ELSE /\ StartupFails(b_log \o <<"MIDIPortConnectSource", "MIDIPortDispose",
                                           "MIDIClientDispose">>)
              /\ UNCHANGED <<s_source, s_budget, cb_pc, m_pc>>
    /\ UNCHANGED <<g_timebase, pulse_vars, delta_vars, schedule_vars, b_tool, s_cfg,
                   s_g_keep_running, s_state, s_clock, cb_pktlist, cb_n,
                   cb_arrival, cb_i, s_reports, s_calls>>

NextStartup ==
    \/ StartTimebase
    \/ StartResolve
    \/ StartClient
    \/ StartPort
    \/ StartDerive
    \/ StartConnect

(***************************************************************************)
(* The schedule arithmetic of main() of midi_pulse in the width of its     *)
(* variables.  UINT64_WRAP stands for 2^64; the intervals, the ticks and   *)
(* the timebases are scaled with it, so that a tick far shorter than a     *)
(* nanosecond brings an interval in ticks past the width.                  *)
(***************************************************************************)
\* (uint64_t) of the unsigned __int128 quotient, or of a sum of uint64_t.
u64(x) == x % UINT64_WRAP

\* ns_to_host as it returns: the quotient is cut to 64 bits.
ns_to_host_u64(ns) == u64(ns_to_host(ns))

\* The timebases of the tools and one whose tick is 1/24 ns: numer and denom
\* are any uint32_t, only denom = 0 is refused.
ScheduleTimebases == Timebases \cup {[numer |-> 1, denom |-> 24]}

\* --interval and --gate: the shortest interval and one of a millisecond,
\* gate 0, 1/4, 1/2, 3/4 and 1.0.
ScheduleConfigs ==
    { [interval_ns |-> t, gate_num |-> g, gate_den |-> 4] :
          t \in {10000, 1000001}, g \in 0..4 }

\* start_host: a tick soon after boot and one that leaves two and a half
\* million ticks before the counter wraps.
ScheduleStarts == {InitialClock, UINT64_WRAP - 2500000}

\* llround((long double)interval_ns * cfg.gate), gate = gate_num / gate_den.
ScheduleGateNs(cfg) ==
    (2 * cfg.interval_ns * cfg.gate_num + cfg.gate_den) \div (2 * cfg.gate_den)

\* on_target of iteration i.
on_target_u64(i) == u64(w_start_host + i * w_interval_host)

\* Mutant: the off-target is kept before the next on-target.
off_target_u64_clamped(on_target) ==
    LET off == u64(on_target + w_gate_host)
        next == on_target_u64(w_i + 1)
    IN  IF off >= next /\ next > 0 THEN next - 1 ELSE off

\* off_target of an on_target.
off_target_u64(on_target) == u64(on_target + w_gate_host)

InitSchedule ==
    /\ g_timebase \in ScheduleTimebases
    /\ w_cfg \in ScheduleConfigs
    /\ w_start_host \in ScheduleStarts
    /\ w_pc = "derive"
    /\ w_interval_host = 0
    /\ w_gate_host = 0
    /\ w_i = 0
    /\ w_on_target = 0
    /\ w_off_target = 0

\* interval_host and gate_host, before the loop.
ScheduleDerive ==
    /\ w_pc = "derive"
    /\ w_interval_host' = ns_to_host_u64(w_cfg.interval_ns)
    /\ w_gate_host' = ns_to_host_u64(ScheduleGateNs(w_cfg))
    /\ w_pc' = "on_target"
    /\ UNCHANGED <<g_timebase, pulse_vars, stats_vars, delta_vars,
                   startup_vars, w_cfg, w_start_host, w_i, w_on_target,
                   w_off_target>>

\* The first statement of an iteration.
ScheduleOnTarget ==
    /\ w_pc = "on_target"
    /\ w_i < MaxNotes
    /\ w_on_target' = on_target_u64(w_i)
    /\ w_pc' = "off_target"
    /\ UNCHANGED <<g_timebase, pulse_vars, stats_vars, delta_vars,
                   startup_vars, w_cfg, w_start_host, w_interval_host,
                   w_gate_host, w_i, w_off_target>>

\* off_target of the iteration, then ++i.
ScheduleOffTarget ==
    /\ w_pc = "off_target"
    /\ w_off_target' = off_target_u64(w_on_target)
    /\ w_i' = w_i + 1
    /\ w_pc' = "on_target"
    /\ UNCHANGED <<g_timebase, pulse_vars, stats_vars, delta_vars,
                   startup_vars, w_cfg, w_start_host, w_interval_host,
                   w_gate_host, w_on_target>>

NextSchedule == ScheduleDerive \/ ScheduleOnTarget \/ ScheduleOffTarget

InitPulseTool == InitPulse /\ StatsOff /\ DeltaOff /\ ScheduleOff /\ StartupDone

InitStatsTool == InitStats /\ PulseOff /\ DeltaOff /\ ScheduleOff /\ StartupDone

InitClassifier == InitClassify /\ PulseOff /\ DeltaOff /\ ScheduleOff /\ StartupDone

SpecPulse == InitPulseTool /\ [][NextPulse]_vars

SpecStats == InitStatsTool /\ [][NextStats]_vars

SpecClassify == InitClassifier /\ [][NextCallback]_vars

\* midi_stats with a main thread that keeps running: its nanosleep returns
\* and each of its calls ends.  The timebase plays no part in how a run
\* ends and is the one of Apple silicon; the source delivers one packet less.
InitStatsFair ==
    /\ InitReceiver("notes", StatsConfigs, MaxPackets - 1,
                    {[numer |-> 125, denom |-> 3]})
    /\ PulseOff
    /\ DeltaOff
    /\ ScheduleOff
    /\ StartupDone

SpecStatsFair ==
    /\ InitStatsFair
    /\ [][NextStats]_vars
    /\ WF_vars(MainPoll)
    /\ WF_vars(MainDisconnect)
    /\ WF_vars(MainReport)
    /\ WF_vars(MainReturn)

\* midi_pulse with a main thread that keeps running and a clock that keeps
\* advancing: each step of main() ends, and a pass of sleep_until_host that
\* does not sleep does not read the same tick for ever.
ClockAdvances == SleepRead /\ p_clock' > p_clock

InitPulseFair ==
    /\ InitPulse
    /\ g_timebase = [numer |-> 125, denom |-> 3]
    /\ p_cfg.interval_ns = 1000001
    /\ StatsOff
    /\ DeltaOff
    /\ ScheduleOff
    /\ StartupDone

SpecPulseFair ==
    /\ InitPulseFair
    /\ [][NextPulse]_vars
    /\ WF_vars(PulseLoop)
    /\ WF_vars(SleepTest)
    /\ WF_vars(SleepRead)
    /\ SF_vars(ClockAdvances)
    /\ WF_vars(SleepNanosleep)
    /\ WF_vars(PulseWoke)
    /\ WF_vars(PulseNoteOn)
    /\ WF_vars(PulseNoteOff)
    /\ WF_vars(PulseCleanupOff)
    /\ WF_vars(PulseCleanup123)
    /\ WF_vars(PulseCleanup120)
    /\ WF_vars(PulseFinalReport)

InitDeltaCalls ==
    InitDelta /\ PulseOff /\ StatsOff /\ ScheduleOff /\ StartupDone

SpecDelta == InitDeltaCalls /\ [][NextDelta]_vars

InitStartupTool == InitStartup /\ DeltaOff /\ ScheduleOff

SpecStartup == InitStartupTool /\ [][NextStartup]_vars

InitScheduleCalls ==
    InitSchedule /\ PulseOff /\ StatsOff /\ DeltaOff /\ StartupDone

SpecSchedule == InitScheduleCalls /\ [][NextSchedule]_vars

Init == InitPulseTool \/ InitStatsTool

Next == NextPulse \/ NextStats

Spec == Init /\ [][Next]_vars

(***************************************************************************)
(* Properties of midi_pulse.                                               *)
(***************************************************************************)
IsLoopNoteOn(m) == m.origin = "loop" /\ m.status = NoteOnStatus

\* The note-on sends of the dispatch loop, in order.
LoopNoteOns == SelectSeq(p_sent, IsLoopNoteOn)

\* The three bytes of a sent message.
Bytes(m) == <<m.status, m.data1, m.data2>>

\* C1: the note-on of iteration i carries start_host + i * interval_host,
\* with start_host the value sampled before the loop, whatever the clock
\* read during the earlier sleeps and sends.
C1_OnTargetsAnchored ==
    /\ p_start_host = InitialClock + ns_to_host(LEAD_IN_NS)
    /\ \A k \in 1..Len(LoopNoteOns) :
         LoopNoteOns[k].timestamp = p_start_host + (k - 1) * interval_host

\* C1 witness: a third note-on is sent after an earlier dispatch was late by
\* more than one interval.
C1_Witness ==
    /\ Len(LoopNoteOns) = 3
    /\ p_stats.count >= 1
    /\ p_stats.samples[1] > interval_ns

\* C2: sleep_until_host has returned only if its last clock reading reached
\* the target or the flag is cleared.
C2_SleepReturns ==
    p_pc = "woke" => (p_current >= p_dispatch_target \/ p_g_keep_running = 0)

\* C2 witness: a return, after a sleep, with the run still active.
C2_Witness ==
    /\ p_pc = "woke"
    /\ p_g_keep_running = 1
    /\ p_sleep_ns > 0
    /\ p_current >= p_dispatch_target

\* main() is past its for loop.
LoopLeft == p_pc \in {"cleanup", "cc123", "cc120", "report", "done"}

\* The sends made since the for loop was left.
CleanupSent == [k \in 1..(Len(p_sent) - p_exit_len) |-> Bytes(p_sent[p_exit_len + k])]

\* The sends the cleanup owes: note-off iff a note is held, then controller
\* 123, then controller 120.
CleanupDue ==
    (IF p_note_is_on THEN <<<<NoteOffStatus, p_cfg.note, 0>>>> ELSE <<>>)
        \o <<<<ControlStatus, 123, 0>>, <<ControlStatus, 120, 0>>>>

\* C3: once the loop is left the sends are exactly the cleanup sequence, in
\* order, and the run ends with all of it sent.
C3_CleanupSequence ==
    /\ p_pc = "cleanup" => CleanupSent = <<>>
    /\ p_pc = "cc123" => CleanupSent = SubSeq(CleanupDue, 1, Len(CleanupDue) - 2)
    /\ p_pc = "cc120" => CleanupSent = SubSeq(CleanupDue, 1, Len(CleanupDue) - 1)
    /\ p_pc \in {"report", "done"} => CleanupSent = CleanupDue
    /\ \A k \in 1..Len(p_sent) :
         p_sent[k].origin = "loop" <=> (LoopLeft => k <= p_exit_len)

\* C3 witness: a run that ended by cancellation with no note held, after a pair.
C3_Witness ==
    /\ p_pc = "done"
    /\ p_g_keep_running = 0
    /\ ~p_note_is_on
    /\ p_exit_len = 2
    /\ Len(p_sent) = 4

FailedInLoop(k) == p_sent[k].origin = "loop" /\ p_sent[k].result # 0

\* C4: a scheduled send that failed is the last send of the loop, the loop is
\* left, and the run ends with the cleanup sent.
C4_SendFailureLeavesLoop ==
    \A k \in 1..Len(p_sent) :
        FailedInLoop(k) =>
            /\ LoopLeft
            /\ \A j \in (k + 1)..Len(p_sent) : p_sent[j].origin = "cleanup"
            /\ p_pc = "done" =>
                 /\ Len(p_sent) >= k + 2
                 /\ Bytes(p_sent[Len(p_sent) - 1]) = <<ControlStatus, 123, 0>>
                 /\ Bytes(p_sent[Len(p_sent)]) = <<ControlStatus, 120, 0>>

\* C4 witness: the note-off of the second pair failed and the run has ended.
C4_Witness ==
    /\ p_pc = "done"
    /\ Len(p_sent) >= 4
    /\ FailedInLoop(4)
    /\ p_sent[4].status = NoteOffStatus

(***************************************************************************)
(* Properties of the accumulators, the series and the classifier.          *)
(***************************************************************************)
\* min <= every sample <= max, count is the number of samples, and the sum
\* lies between count * min and count * max.
AccumulatorSound(min, max, sum, count, samples) ==
    /\ count = Len(samples)
    /\ \A k \in 1..Len(samples) : min <= samples[k] /\ samples[k] <= max
    /\ count > 0 => (count * min <= sum /\ sum <= count * max)

ReceiverAccumulatorSound(a) ==
    AccumulatorSound(a.min_ns, a.max_ns, a.sum_ns, a.count, a.samples)

\* C5: every accumulator of both tools counts its add calls, brackets every
\* added sample by min and max, and has its mean within [min, max].
C5_AccumulatorsSound ==
    /\ AccumulatorSound(p_stats.min_late_ns, p_stats.max_late_ns,
                        p_stats.sum_late_ns, p_stats.count, p_stats.samples)
    /\ ReceiverAccumulatorSound(s_state.effective_series.interval)
    /\ ReceiverAccumulatorSound(s_state.effective_series.jitter)
    /\ ReceiverAccumulatorSound(s_state.timestamped_series.interval)
    /\ ReceiverAccumulatorSound(s_state.timestamped_series.jitter)
    /\ ReceiverAccumulatorSound(s_state.arrival_vs_timestamp)

\* C5 witness: a jitter accumulator holding negative, zero and positive samples.
C5_Witness ==
    /\ s_state.effective_series.jitter.count >= 3
    /\ s_state.effective_series.jitter.min_ns < 0
    /\ s_state.effective_series.jitter.max_ns > 0

RECURSIVE ForwardedEvents(_)
\* Every on_matching_event call so far, in order: its two arguments.
ForwardedEvents(calls) ==
    IF calls = <<>> THEN <<>>
    ELSE ForwardedEvents(SubSeq(calls, 1, Len(calls) - 1)) \o
         [k \in 1..Len(calls[Len(calls)].forwarded) |->
             [packet_timestamp |-> calls[Len(calls)].packet.timeStamp,
              arrival_timestamp |-> calls[Len(calls)].arrival]]

HasPacketTimestamp(e) == e.packet_timestamp # 0

\* The timestamps fed to the effective-time series and to the
\* timestamp-only series.
EffectiveTimes ==
    LET ev == ForwardedEvents(s_calls)
    IN  [k \in 1..Len(ev) |-> IF ev[k].packet_timestamp # 0
                              THEN ev[k].packet_timestamp
                              ELSE ev[k].arrival_timestamp]

TimestampOnlyTimes ==
    LET ev == SelectSeq(ForwardedEvents(s_calls), HasPacketTimestamp)
    IN  [k \in 1..Len(ev) |-> ev[k].packet_timestamp]

\* The intervals between consecutive event times.
MeasuredIntervals(times) ==
    [k \in 1..(Len(times) - 1) |-> delta_ns_from_host(times[k + 1], times[k])]

ReferenceFixed(series, times) ==
    LET intervals == MeasuredIntervals(times)
    IN  /\ series.interval.samples = intervals
        /\ series.have_reference_interval <=> Len(times) >= 2
        /\ series.have_reference_interval =>
             series.reference_interval_ns = intervals[1]
        /\ \A k \in 1..Len(series.jitter.samples) :
             /\ k <= Len(intervals)
             /\ series.jitter.samples[k] = intervals[k] - intervals[1]

\* C6: in each series the reference interval is present from the second event
\* on, is the first measured interval ever after, and every jitter sample is
\* the interval measured for its event minus that reference.
C6_ReferenceFixed ==
    /\ ReferenceFixed(s_state.effective_series, EffectiveTimes)
    /\ ReferenceFixed(s_state.timestamped_series, TimestampOnlyTimes)

\* C6 witness: a third event whose interval differs from the reference.
C6_Witness ==
    /\ s_state.timestamped_series.events_seen >= 3
    /\ s_state.timestamped_series.interval.samples[2]
         # s_state.timestamped_series.reference_interval_ns

JitterFromSecondInterval(series) ==
    series.jitter.count =
        IF series.interval.count = 0 THEN 0 ELSE series.interval.count - 1

\* C7 as stated: the first interval adds no jitter sample, the jitter
\* accumulator's count is one less than the number of intervals.
C7_AsStated ==
    /\ JitterFromSecondInterval(s_state.effective_series)
    /\ JitterFromSecondInterval(s_state.timestamped_series)

JitterPerInterval(series) ==
    /\ series.jitter.count = series.interval.count
    /\ series.jitter.count = series.intervals_seen
    /\ series.jitter.count >= 1 => series.jitter.samples[1] = 0
    /\ series.interval.count = 3 =>
         series.jitter.samples =
            <<0, series.interval.samples[2] - series.interval.samples[1],
                 series.interval.samples[3] - series.interval.samples[1]>>

\* C7 amended: the first interval sets the reference and adds the jitter
\* sample 0; there is one jitter sample for every interval, so intervals
\* [a, a, b] give the jitter samples [0, 0, b - a].
C7_JitterPerInterval ==
    /\ JitterPerInterval(s_state.effective_series)
    /\ JitterPerInterval(s_state.timestamped_series)

\* C7 witness: three intervals [a, a, b] with b # a.
C7_Witness ==
    LET iv == s_state.timestamped_series.interval.samples
    IN  /\ Len(iv) = 3
        /\ iv[1] = iv[2]
        /\ iv[3] # iv[1]
        /\ iv[1] > 0

\* A complete note-on on the channel with a velocity above 0.
QualifyingMessage(msg, channel_filter) ==
    /\ Len(msg) = 3
    /\ msg[1] \div 16 = 9
    /\ (msg[1] % 16) + 1 = channel_filter
    /\ msg[3] > 0

RECURSIVE QualifyingOffsets(_, _, _)
\* The offsets, in the buffer, of the qualifying messages of a list of messages.
QualifyingOffsets(frags, offset, channel_filter) ==
    IF frags = <<>> THEN <<>>
    ELSE (IF QualifyingMessage(Head(frags), channel_filter) THEN <<offset>> ELSE <<>>)
         \o QualifyingOffsets(Tail(frags), offset + Len(Head(frags)), channel_filter)

WellFormed(frags) == \A k \in 1..Len(frags) : frags[k] \in WellFormedMessages

\* C8: for a buffer made of complete, well-formed messages the classifier
\* forwards exactly the note-ons on the configured channel with velocity > 0;
\* [0x91,0x3C,0x64] gives one event with filter 2 and none with filter 1,
\* [0x91,0x3C,0x00] gives none.
C8_ClassifierOnWellFormed ==
    \A c \in 1..Len(s_calls) :
        s_calls[c].returned =>
            /\ WellFormed(s_calls[c].packet.frags) =>
                 s_calls[c].forwarded =
                    QualifyingOffsets(s_calls[c].packet.frags, 0, s_cfg.channel)
            /\ s_calls[c].packet.data = <<145, 60, 100>> =>
                 s_calls[c].forwarded = IF s_cfg.channel = 2 THEN <<0>> ELSE <<>>
            /\ s_calls[c].packet.data = <<145, 60, 0>> => s_calls[c].forwarded = <<>>

\* C8 witness: a buffer of three well-formed messages, the second and third
\* of them forwarded.
C8_Witness ==
    /\ Len(s_calls) = 1
    /\ s_calls[1].returned
    /\ WellFormed(s_calls[1].packet.frags)
    /\ Len(s_calls[1].packet.frags) = 3
    /\ Len(s_calls[1].forwarded) = 2
    /\ s_calls[1].forwarded[1] > 0

\* A step of process_packet_bytes that calls on_matching_event.
EventStep ==
    /\ cb_pc = "scan"
    /\ Len(s_calls') = Len(s_calls)
    /\ Len(s_calls'[Len(s_calls)].forwarded) = Len(s_calls[Len(s_calls)].forwarded) + 1

CurrentTimestamp == cb_pktlist[cb_n + 1].timeStamp

\* C9: an event without hardware timestamp counts as seen and untimestamped,
\* leaves the timestamped count, the timestamp-only series and the lateness
\* accumulator alone and enters the effective-time series at its arrival time.
C9_UntimestampedEvent ==
    [][(EventStep /\ CurrentTimestamp = 0) =>
        /\ s_state'.events_seen = s_state.events_seen + 1
        /\ s_state'.untimestamped_events = s_state.untimestamped_events + 1
        /\ s_state'.timestamped_events = s_state.timestamped_events
        /\ s_state'.timestamped_series = s_state.timestamped_series
        /\ s_state'.arrival_vs_timestamp = s_state.arrival_vs_timestamp
        /\ s_state'.effective_series.events_seen =
             s_state.effective_series.events_seen + 1
        /\ s_state'.effective_series.previous_timestamp = cb_arrival]_vars

\* C9 witness: an untimestamped event was handled after a timestamped one.
C9_Witness ==
    /\ s_state.untimestamped_events >= 1
    /\ s_state.timestamped_events >= 1
    /\ s_state.effective_series.previous_timestamp = cb_arrival
    /\ s_state.timestamped_series.previous_timestamp # cb_arrival

\* C10: an event with a hardware timestamp enters both series at that
\* timestamp, counts as timestamped only, and adds the one lateness sample
\* delta(arrival, timestamp).
C10_TimestampedEvent ==
    [][(EventStep /\ CurrentTimestamp # 0) =>
        /\ CurrentTimestamp # cb_arrival
        /\ s_state'.events_seen = s_state.events_seen + 1
        /\ s_state'.timestamped_events = s_state.timestamped_events + 1
        /\ s_state'.untimestamped_events = s_state.untimestamped_events
        /\ s_state'.effective_series.events_seen =
             s_state.effective_series.events_seen + 1
        /\ s_state'.effective_series.previous_timestamp = CurrentTimestamp
        /\ s_state'.timestamped_series.events_seen =
             s_state.timestamped_series.events_seen + 1
        /\ s_state'.timestamped_series.previous_timestamp = CurrentTimestamp
        /\ s_state'.arrival_vs_timestamp.count =
             s_state.arrival_vs_timestamp.count + 1
        /\ s_state'.arrival_vs_timestamp.samples =
             Append(s_state.arrival_vs_timestamp.samples,
                    IF cb_arrival >= CurrentTimestamp
                    THEN host_to_ns(cb_arrival - CurrentTimestamp)
                    ELSE -host_to_ns(CurrentTimestamp - cb_arrival))]_vars

\* C10 witness: timestamped events have arrived both before and after their
\* timestamp.
C10_Witness ==
    /\ s_state.arrival_vs_timestamp.count >= 2
    /\ s_state.arrival_vs_timestamp.min_ns < 0
    /\ s_state.arrival_vs_timestamp.max_ns > 0
    /\ s_state.timestamped_series.previous_timestamp
         = s_state.effective_series.previous_timestamp

(***************************************************************************)
(* Further properties of midi_pulse.                                       *)
(***************************************************************************)
\* interval_ns * gate rounded to the nearest nanosecond, halves upwards.
RoundedGateNs ==
    LET product == interval_ns * p_cfg.gate_num
        q == product \div p_cfg.gate_den
        r == product % p_cfg.gate_den
    IN  IF 2 * r >= p_cfg.gate_den THEN q + 1 ELSE q

IsLoopNoteOff(m) == m.origin = "loop" /\ m.status = NoteOffStatus

\* C11: every note-off of the loop follows its note-on and carries the
\* note-on's timestamp plus the gate, the rounded interval_ns * gate in ticks;
\* with interval = 200 ms and gate = 0.25 the gate is 50 ms.
C11_GateAfterOnTarget ==
    \A k \in 1..Len(p_sent) :
        IsLoopNoteOff(p_sent[k]) =>
            /\ k > 1
            /\ IsLoopNoteOn(p_sent[k - 1])
            /\ p_sent[k].timestamp =
                 p_sent[k - 1].timestamp + ns_to_host(RoundedGateNs)
            /\ (interval_ns = 200000000 /\ p_cfg.gate_num = 1) =>
                 p_sent[k].timestamp = p_sent[k - 1].timestamp + ns_to_host(50000000)

\* C11 witness: two note-offs sent with a gate that had to be rounded.
C11_Witness ==
    /\ Len(SelectSeq(p_sent, IsLoopNoteOff)) = 2
    /\ (interval_ns * p_cfg.gate_num) % p_cfg.gate_den # 0
    /\ p_sent[Len(p_sent)].timestamp # p_clock + gate_host

(***************************************************************************)
(* Properties of the reports.                                              *)
(***************************************************************************)
\* Reports made at the same event count carry the same values.
ReportsRepeat ==
    /\ \A j, k \in 1..Len(s_reports) :
         s_reports[j].events = s_reports[k].events =>
            [s_reports[j] EXCEPT !.final = FALSE] = [s_reports[k] EXCEPT !.final = FALSE]
    /\ \A j, k \in 1..Len(p_reports) :
         p_reports[j].note_on = p_reports[k].note_on => p_reports[j] = p_reports[k]

\* A step that writes a report leaves a state of which the same report would
\* be written again, and the final reports change no field at all.
ReportFrame ==
    /\ s_reports' # s_reports =>
         s_reports'[Len(s_reports')] =
            print_report(s_state', s_reports'[Len(s_reports')].final)
    /\ (m_pc = "report" /\ m_pc' = "flush") => s_state' = s_state
    /\ p_reports' # p_reports =>
         <<p_reports'[Len(p_reports')]>> = stats_print(p_stats', p_sent_notes')
    /\ (p_pc = "report" /\ p_pc' = "done") =>
         (p_stats' = p_stats /\ p_sent_notes' = p_sent_notes)

\* C12: producing a report changes no counter, series or accumulator, and two
\* reports with no event between them carry the same values.
C12_ReportsChangeNothing == []ReportsRepeat /\ [][ReportFrame]_vars

\* C12 witness: a periodic report and the final report, no event between them.
C12_Witness ==
    /\ Len(s_reports) = 2
    /\ s_reports[2].final
    /\ s_reports[1].events = 2
    /\ s_reports[2].events = 2
    /\ s_reports[2].effective_event_time.line = "intervals"

(***************************************************************************)
(* Properties of the end of a midi_stats run.                              *)
(***************************************************************************)
IsFinalReport(r) == r.final

FinalReports == SelectSeq(s_reports, IsFinalReport)

\* The event that makes events_seen equal to --count clears the flag; no
\* event before it does, and with --count 0 no event does.
StopAtCount ==
    /\ (EventStep /\ s_cfg.count > 0 /\ s_state'.events_seen = s_cfg.count) =>
         s_g_keep_running' = 0
    /\ (s_g_keep_running' # s_g_keep_running
          /\ (s_cfg.count = 0 \/ s_state'.events_seen < s_cfg.count)) =>
         UNCHANGED <<s_state, s_calls, cb_pc, cb_n, cb_i>>

CountReached == s_cfg.count > 0 /\ s_state.events_seen >= s_cfg.count

MainFinished ==
    /\ m_pc = "done"
    /\ Len(FinalReports) = 1

\* C13: with --count N > 0 the N-th event clears the flag and main then leaves
\* its loop, disconnects and writes exactly one final report; with --count 0
\* no event clears the flag.
C13_CountEndsRun ==
    /\ [][StopAtCount]_vars
    /\ [](Len(FinalReports) <= 1)
    /\ [](m_pc \in {"disconnect", "report", "flush", "done"} => s_g_keep_running = 0)
    /\ CountReached ~> MainFinished

\* C13 witness: the run ended by its count, without a signal: two events
\* seen, the final report written.
C13_Witness ==
    /\ s_cfg.count = 2
    /\ s_state.events_seen = 2
    /\ m_pc = "done"
    /\ Len(FinalReports) = 1
    /\ FinalReports[1].events = 2

(***************************************************************************)
(* Properties of the cancellation of midi_pulse.                           *)
(***************************************************************************)
IsLoopMsg(m) == m.origin = "loop"

\* The sends of the dispatch loop made after the signal.
SentAfterSignal ==
    SelectSeq(SubSeq(p_sent, p_signal.sent + 1, Len(p_sent)), IsLoopMsg)

\* C14: after a signal that arrives between the for test and the test that
\* follows sleep_until_host the loop sends nothing more; after a signal at any
\* point it sends at most the note-on and the note-off of one iteration.
C14_SignalEndsLoop ==
    p_signal.pc # "none" =>
        /\ p_signal.pc = "wait" => SentAfterSignal = <<>>
        /\ p_signal.pc = "note_off" => SelectSeq(SentAfterSignal, IsLoopNoteOn) = <<>>
        /\ Len(SelectSeq(SentAfterSignal, IsLoopNoteOn)) <= 1
        /\ Len(SelectSeq(SentAfterSignal, IsLoopNoteOff)) <= 1
        /\ Len(SentAfterSignal) = 2 => IsLoopNoteOn(SentAfterSignal[1])
        /\ p_pc = "loop" => p_i <= Len(SelectSeq(SubSeq(p_sent, 1, p_signal.sent),
                                                  IsLoopNoteOff)) + 1

\* C14 witness: a run of a fixed count, one note sent, the signal during the
\* wait for the second, and the run over.
C14_Witness ==
    /\ p_cfg.count = 3
    /\ p_signal.pc = "wait"
    /\ p_signal.sent = 2
    /\ p_pc = "done"
    /\ Len(LoopNoteOns) = 1

(***************************************************************************)
(* Properties of the classifier on cut messages and on sysex.              *)
(***************************************************************************)
\* The beginnings of a channel message or of a system message of fixed
\* length that the end of the buffer cuts.
TruncatedPieces == { <<145>>, <<145, 60>>, <<242, 16>> }

\* The pieces of a buffer but the last.
Front(frags) == SubSeq(frags, 1, Len(frags) - 1)

EndsTruncated(frags) ==
    /\ Len(frags) >= 1
    /\ frags[Len(frags)] \in TruncatedPieces
    /\ WellFormed(Front(frags))

\* Stray data bytes, as a buffer begins with after a cut message.
IsDataPiece(piece) == \A k \in 1..Len(piece) : piece[k] < 128

TotalForwarded(calls) == Len(ForwardedEvents(calls))

\* C15: a buffer that ends inside a channel message or a system message of
\* fixed length is scanned up to the start of that message and no further,
\* gives the events of the messages before it and none for the cut one, writes
\* nothing but the reports of those events and leaves the flag alone; the next
\* buffer is scanned from its first byte as a buffer of its own.
C15_TruncatedDropped ==
    /\ Len(s_reports) = TotalForwarded(s_calls)
    /\ s_g_keep_running = 1
    /\ \A c \in 1..Len(s_calls) :
         LET call == s_calls[c]
             frags == call.packet.frags
         IN  call.returned =>
               /\ EndsTruncated(frags) =>
                    /\ call.scanned = Len(Flatten(Front(frags)))
                    /\ call.forwarded =
                         QualifyingOffsets(Front(frags), 0, s_cfg.channel)
               /\ (c > 1 /\ EndsTruncated(s_calls[c - 1].packet.frags)) =>
                    /\ IsDataPiece(frags[1])
                    /\ call.scanned = Len(call.packet.data)
                    /\ call.forwarded = QualifyingOffsets(frags, 0, s_cfg.channel)

\* C15 witness: a note-on cut after its note byte, its velocity first in the
\* next buffer; the event of the message before the cut and that of the
\* message after the stray velocity are the only ones.
C15_Witness ==
    /\ Len(s_calls) = 2
    /\ s_calls[2].returned
    /\ s_calls[1].packet.frags = <<<<145, 60, 100>>, <<145, 60>>>>
    /\ s_calls[2].packet.frags = <<<<100>>, <<145, 60, 100>>>>
    /\ s_calls[1].forwarded = <<0>>
    /\ s_calls[2].forwarded = <<1>>

RECURSIVE EndOfSysex(_, _)
\* The index of the first 0xF7 at or after i, or the length of the buffer.
EndOfSysex(data, i) ==
    IF i >= Len(data) THEN Len(data)
    ELSE IF data[i + 1] = 247 THEN i
    ELSE EndOfSysex(data, i + 1)

\* The pieces that start a sysex, each after complete messages only, so that
\* the scan meets its 0xF0 as a status byte.
SysexStarts(frags) ==
    { j \in 1..Len(frags) : frags[j][1] = 240 /\ WellFormed(SubSeq(frags, 1, j - 1)) }

Range(seq) == { seq[k] : k \in 1..Len(seq) }

\* A complete note-on for the channel with velocity > 0 at index i of data.
NoteOnAt(data, i, channel_filter) ==
    /\ i + 3 <= Len(data)
    /\ data[i + 1] = 143 + channel_filter
    /\ data[i + 3] > 0

\* C16: from a 0xF0 status byte to the first 0xF7 after it, or to the end of
\* the buffer, no byte starts an event, not even the bytes of a note-on; a
\* note-on right after the 0xF7 is forwarded.
C16_SysexSkipped ==
    \A c \in 1..Len(s_calls) :
        LET call == s_calls[c]
            data == call.packet.data
            frags == call.packet.frags
        IN  call.returned =>
              \A j \in SysexStarts(frags) :
                  LET start == Len(Flatten(SubSeq(frags, 1, j - 1)))
                      end == EndOfSysex(data, start + 1)
                  IN  /\ \A x \in Range(call.forwarded) : x < start \/ x > end
                      /\ NoteOnAt(data, end + 1, s_cfg.channel) =>
                           end + 1 \in Range(call.forwarded)

\* C16 witness: a sysex around the bytes of a note-on, then a note-on: only
\* the second is forwarded.
C16_Witness ==
    /\ Len(s_calls) = 1
    /\ s_calls[1].returned
    /\ s_cfg.channel = 2
    /\ s_calls[1].packet.frags = <<<<240, 17, 145, 60, 100, 247>>, <<145, 60, 100>>>>
    /\ s_calls[1].forwarded = <<6>>

(***************************************************************************)
(* Who writes the RuntimeState of midi_stats.                              *)
(***************************************************************************)
\* A step of main(), of on_signal, of the callback.
MainStep == m_pc' # m_pc

CallbackStep == cb_pc' # cb_pc \/ cb_i' # cb_i \/ cb_n' # cb_n \/ s_calls' # s_calls

SignalStep == s_g_keep_running' # s_g_keep_running /\ ~CallbackStep

StateWrittenByCallbackOnly ==
    /\ MainStep => (s_state' = s_state /\ s_g_keep_running' = s_g_keep_running)
    /\ SignalStep => (s_state' = s_state /\ s_g_keep_running' = 0)
    /\ s_state' # s_state => (CallbackStep /\ cb_pc = "scan" /\ ~MainStep)

\* C17: once the callback is registered, the counters, the series and the
\* accumulators are written in steps of the callback only; main() reads the
\* flag and, for the final report, the state, and on_signal writes the flag.
C17_CallbackOwnsState == [][StateWrittenByCallbackOnly]_vars

\* C17 witness: a run that a signal ended after events were counted, its
\* final report written by main().
C17_Witness ==
    /\ s_cfg.count = 0
    /\ m_pc = "done"
    /\ s_state.events_seen >= 2
    /\ s_state.timestamped_series.events_seen >= 1
    /\ s_reports[Len(s_reports)].final
    /\ s_reports[Len(s_reports)].events = s_state.events_seen

(***************************************************************************)
(* Properties of delta_ns_from_host.                                       *)
(***************************************************************************)
\* Ticks to nanoseconds under the timebase, rounded down.
TicksInNs(ticks) == (ticks * g_timebase.numer) \div g_timebase.denom

C19_ZeroDenominatorFatal ==
    (b_pc # "timebase" /\ g_timebase.denom = 0) =>
        /\ b_pc = "exit"
        /\ b_status = 1
        /\ b_log = <<"mach_timebase_info">>
        /\ p_pc = "off"
        /\ m_pc = "off"
        /\ cb_pc = "off"
        /\ p_sent = <<>>
        /\ s_calls = <<>>

\* C19 witness: midi_stats has read a timebase 1/0 and has ended.
C19_Witness ==
    /\ b_tool = "midi_stats"
    /\ g_timebase = [numer |-> 1, denom |-> 0]
    /\ b_pc = "exit"
    /\ b_status = 1

(***************************************************************************)
(* Properties of the reports on empty accumulators.                        *)
(***************************************************************************)
\* A series line: "insufficient data" below two events, else means and
\* deviations over counts above 0.
SeriesLineSound(line, events) ==
    /\ line.line = "insufficient data" <=> events < 2
    /\ line.line = "intervals" =>
         /\ line.intervals = events - 1
         /\ line.interval_mean[2] = events - 1
         /\ line.jitter_mean[2] = events - 1
         /\ line.jitter_abs_mean[2] = events - 1
         /\ line.interval_std.den = (events - 1) * (events - 1)
         /\ line.jitter_std.den = (events - 1) * (events - 1)

LatenessLineSound(line, timestamped) ==
    /\ line.line = "no timestamped events" <=> timestamped = 0
    /\ line.line = "lateness" =>
         /\ line.samples = timestamped
         /\ line.mean[2] = timestamped
         /\ line.abs_mean[2] = timestamped
         /\ line.std.den = timestamped * timestamped

\* C20: no report divides by a count of 0: midi_pulse writes no line for an
\* empty accumulator, midi_stats writes "insufficient data" for a series with
\* fewer than two events and "no timestamped events" for an empty lateness
\* accumulator, and the timestamp ratio is 0 when no event was seen.
C20_NoReportOfEmpty ==
    /\ \A k \in 1..Len(p_reports) : p_reports[k].count > 0
    /\ (p_pc = "done" /\ p_stats.count = 0) => p_reports = <<>>
    /\ \A k \in 1..Len(s_reports) :
         LET r == s_reports[k]
         IN  /\ r.ts_ratio = IF r.events = 0 THEN <<0, 1>>
                             ELSE <<r.timestamped * 100, r.events>>
             /\ SeriesLineSound(r.effective_event_time, r.events)
             /\ SeriesLineSound(r.timestamp_only, r.timestamped)
             /\ LatenessLineSound(r.arrival_vs_timestamp, r.timestamped)

\* C20 witness: the final report after a single event without timestamp.
C20_Witness ==
    /\ Len(s_reports) = 1
    /\ s_reports[1].final
    /\ s_reports[1].events = 1
    /\ s_reports[1].timestamped = 0
    /\ s_reports[1].effective_event_time.line = "insufficient data"
    /\ s_reports[1].arrival_vs_timestamp.line = "no timestamped events"

(***************************************************************************)
(* Properties of the schedule of the midi_stats reports.                   *)
(***************************************************************************)
IsPeriodicReport(r) == ~r.final

PeriodicReports == SelectSeq(s_reports, IsPeriodicReport)

\* There is one periodic report for every multiple of --report-every that
\* events_seen has reached, written with that event already counted and
\* added to the effective-time series.
ReportCadence ==
    /\ Len(PeriodicReports) =
         IF s_cfg.report_every > 0
         THEN s_state.events_seen \div s_cfg.report_every
         ELSE 0
    /\ \A k \in 1..Len(PeriodicReports) :
         LET r == PeriodicReports[k]
         IN  /\ r.events = k * s_cfg.report_every
             /\ r.events = r.timestamped + r.untimestamped
             /\ r.events >= 2 =>
                  /\ r.effective_event_time.line = "intervals"
                  /\ r.effective_event_time.intervals = r.events - 1

\* main() writes one final report, when it has left its loop.
OneFinalReport ==
    Len(FinalReports) = IF m_pc \in {"flush", "done"} THEN 1 ELSE 0

\* No report follows the final report.
FinalReportLast ==
    \A k \in 1..Len(s_reports) : s_reports[k].final => k = Len(s_reports)

\* C21 as stated: a periodic report is written exactly when events_seen
\* becomes a multiple of --report-every, with that event counted, and the one
\* final report is written at shutdown after every periodic report.
C21_AsStated ==
    /\ ReportCadence
    /\ OneFinalReport
    /\ FinalReportLast

(***************************************************************************)
(* Properties of --count in midi_stats.                                    *)
(***************************************************************************)
\* The events counted before the call of process_packet_bytes that runs, or
\* ran last.
CountedBeforeLastCall ==
    IF s_calls = <<>> THEN 0
    ELSE Len(ForwardedEvents(SubSeq(s_calls, 1, Len(s_calls) - 1)))

\* A packet is handed to process_packet_bytes only below the count: what is
\* counted past --count lies in the packet that holds the count-th event.
OverrunInOnePacket ==
    (s_cfg.count > 0 /\ s_calls # <<>>) => CountedBeforeLastCall < s_cfg.count

\* C22 as stated: with --count N > 0 no event is counted or added to a series
\* after the N-th, wherever the next qualifying message lies.
C22_AsStated ==
    s_cfg.count > 0 =>
        /\ s_state.events_seen <= s_cfg.count
        /\ s_state.effective_series.events_seen <= s_cfg.count
        /\ s_state.timestamped_series.events_seen <= s_cfg.count

(***************************************************************************)
(* The final report of midi_stats and the callback thread.                 *)
(***************************************************************************)
\* main() is in, or past, print_report(&state, true).
FinalReportStarted == m_pc \in {"flush", "done"}

\* C23 as stated: from the start of the final report on, the callback thread
\* changes no counter, series or accumulator: the final report shows the
\* state as it is ever after.
C23_AsStated ==
    FinalReportStarted =>
        \E k \in 1..Len(s_reports) :
            /\ s_reports[k].final
            /\ s_reports[k] = print_report(s_state, TRUE)

(***************************************************************************)
(* Properties of the length of a midi_pulse run.                           *)
(***************************************************************************)
\* The sends of the dispatch loop, in order.
LoopMsgs == SelectSeq(p_sent, IsLoopMsg)

\* No scheduled send has failed.
NoSendFailure == \A k \in 1..Len(p_sent) : ~FailedInLoop(k)

\* The pair of iteration i: its note-on and its note-off, both sent.
PairOf(i) ==
    << ShortMsg(OnTarget(i), NoteOnStatus, p_cfg.note, p_cfg.velocity, 0, "loop"),
       ShortMsg(OffTarget(OnTarget(i)), NoteOffStatus, p_cfg.note, 0, 0, "loop") >>

\* Without cancellation and send failure the loop has sent the pairs of the
\* iterations 0..i-1 and, past its note-on, the note-on of iteration i; it is
\* left only at i = count > 0.
PairsInOrder ==
    (p_g_keep_running = 1 /\ NoSendFailure) =>
        /\ Len(LoopMsgs) = 2 * p_i + (IF p_pc = "note_off" THEN 1 ELSE 0)
        /\ \A k \in 1..Len(LoopMsgs) :
             LoopMsgs[k] = PairOf((k - 1) \div 2)[((k - 1) % 2) + 1]
        /\ LoopLeft =>
             /\ p_cfg.count > 0
             /\ p_i = p_cfg.count
             /\ p_sent_notes = p_cfg.count

\* An iteration whose dispatch target has passed when sleep_until_host reads
\* the clock is sent without a sleep.
LateSentAtOnce ==
    /\ (p_pc = "sleep_read" /\ p_clock >= p_dispatch_target /\ p_pc' # p_pc) =>
         (p_pc' = "woke" /\ p_clock' = p_clock)
    /\ (p_pc = "woke" /\ p_g_keep_running = 1 /\ p_pc' # p_pc) => p_pc' = "note_on"

\* C24: with --count N > 0, no signal and no failed send, the run ends after
\* the N pairs of the iterations 0..N-1, in order; an iteration that is late
\* is sent at once; with --count 0 the loop is left only by a signal or a
\* failed send.
C24_CountedRunEnds ==
    /\ []PairsInOrder
    /\ [][LateSentAtOnce]_vars
    /\ (p_cfg.count > 0) ~> (p_pc = "done")

\* C24 witness: a run of three pairs that ended by its count, the second
\* iteration dispatched when its target had passed by more than an interval.
C24_Witness ==
    /\ p_pc = "done"
    /\ p_cfg.count = 3
    /\ p_g_keep_running = 1
    /\ NoSendFailure
    /\ Len(LoopMsgs) = 6
    /\ p_stats.samples[2] > interval_ns

(***************************************************************************)
(* Properties of the pairing of the midi_pulse sends.                      *)
(***************************************************************************)
\* A note-off for the note of the run, from the loop or from the cleanup.
IsNoteOffSend(m) == m.status = NoteOffStatus /\ m.data1 = p_cfg.note

\* The scheduled sends are note-on, note-off, note-on, ...
SendsAlternate ==
    \A k \in 1..Len(LoopMsgs) :
        IF k % 2 = 1 THEN IsLoopNoteOn(LoopMsgs[k]) ELSE IsLoopNoteOff(LoopMsgs[k])

\* A note-on that was sent is followed by a note-off send, or main() is at
\* the note-off send of its iteration.
NoteOnsReleased ==
    \A k \in 1..Len(p_sent) :
        (IsLoopNoteOn(p_sent[k]) /\ p_sent[k].result = 0) =>
            \/ k = Len(p_sent) /\ p_pc = "note_off"
            \/ \E j \in (k + 1)..Len(p_sent) : IsNoteOffSend(p_sent[j])

\* C25: the scheduled sends alternate note-on, note-off from a note-on on,
\* and every note-on that was sent is followed by the send of a note-off for
\* its channel and note before main() ends, whenever the signal arrives and
\* whichever sends fail.
C25_NoteOnsPaired ==
    /\ SendsAlternate
    /\ NoteOnsReleased
    /\ p_note_is_on =>
         /\ LoopMsgs # <<>>
         /\ p_pc \in {"report", "done"} => IsNoteOffSend(p_sent[Len(p_sent) - 2])

\* C25 witness: the signal arrived between the two sends of the second
\* iteration, the note-off of the loop failed, and the run is over.
C25_Witness ==
    /\ p_pc = "done"
    /\ p_signal.pc = "note_off"
    /\ p_signal.sent = 3
    /\ p_sent[4].status = NoteOffStatus
    /\ p_sent[4].result # 0
    /\ IsNoteOffSend(p_sent[5])

(***************************************************************************)
(* Properties of the lateness samples of midi_pulse.                       *)
(***************************************************************************)
\* A step that sends the note-on of the loop, and one whose send succeeded.
NoteOnStep ==
    /\ Len(p_sent') = Len(p_sent) + 1
    /\ IsLoopNoteOn(p_sent'[Len(p_sent')])

NoteOnSent == NoteOnStep /\ p_sent'[Len(p_sent')].result = 0

\* The note-ons of the loop whose send succeeded.
IsNoteOnSent(m) == IsLoopNoteOn(m) /\ m.result = 0

\* The lateness accumulator counts the note-ons sent, and the lines written
\* before the final one are those of the multiples of --report-every.
LatenessCounts ==
    /\ p_stats.count = Len(SelectSeq(p_sent, IsNoteOnSent))
    /\ p_stats.count = p_sent_notes
    /\ p_pc # "done" =>
         /\ Len(p_reports) = IF p_cfg.report_every > 0
                             THEN p_sent_notes \div p_cfg.report_every
                             ELSE 0
         /\ \A k \in 1..Len(p_reports) :
              /\ p_reports[k].note_on = k * p_cfg.report_every
              /\ p_reports[k].count = k * p_cfg.report_every

\* A note-on that is sent adds the sample measured from the clock reading of
\* its dispatch to its on_target, and is followed by a line exactly at a
\* multiple of --report-every; no other step adds a sample, and no other step
\* but the end of main() writes a line.
LatenessStep ==
    /\ NoteOnSent =>
         /\ p_stats'.samples =
              Append(p_stats.samples,
                     delta_ns_from_host(p_clock', p_sent'[Len(p_sent')].timestamp))
         /\ p_sent_notes' = p_sent_notes + 1
         /\ Len(p_reports') = Len(p_reports) +
              (IF p_cfg.report_every > 0 /\ p_sent_notes' % p_cfg.report_every = 0
               THEN 1 ELSE 0)
    /\ ~NoteOnSent =>
         /\ p_stats' = p_stats
         /\ p_sent_notes' = p_sent_notes
         /\ p_reports' # p_reports => (p_pc = "report" /\ p_pc' = "done")

\* C26: each note-on that is sent adds one lateness sample, the signed
\* difference of the clock reading taken before the send and its on_target;
\* a failed or cancelled one adds none; the accumulator's count is the number
\* of note-ons sent; the n-th note-on is followed by a statistics line
\* exactly when --report-every > 0 divides n.
C26_LatenessPerNoteOn == []LatenessCounts /\ [][LatenessStep]_vars

\* C26 witness: two note-ons sent, the first early and the second late, the
\* line of the second written, and a third whose send failed.
C26_Witness ==
    /\ p_stats.count = 2
    /\ p_stats.samples[1] < 0
    /\ p_stats.samples[2] > 0
    /\ Len(p_reports) = 1
    /\ Len(LoopNoteOns) = 3
    /\ p_sent[Len(p_sent)].result # 0
    /\ p_pc = "cleanup"

(***************************************************************************)
(* Properties of the dispatch lead of midi_pulse.                          *)
(***************************************************************************)
\* min(interval / 2, 2 ms), in ticks.
LeadTicks ==
    ns_to_host(IF interval_ns \div 2 < MAX_LEAD_NS THEN interval_ns \div 2
               ELSE MAX_LEAD_NS)

\* The earliest tick at which the note-on of an on_target may be submitted.
EarliestDispatch(on_target) ==
    IF on_target > LeadTicks THEN on_target - LeadTicks ELSE on_target

\* A note-on is submitted with its on_target as timestamp, at a clock
\* reading that is not before its on_target less the lead.
DispatchedWithinLead ==
    NoteOnStep =>
        /\ p_sent'[Len(p_sent')].timestamp = OnTarget(p_i)
        /\ p_clock' >= EarliestDispatch(OnTarget(p_i))

\* The lead is taken off an on_target above it and off no other.
LeadGuarded ==
    /\ schedule_lead_host = LeadTicks
    /\ \A t \in {0, 1, LeadTicks, LeadTicks + 1, p_start_host} :
         /\ DispatchTarget(t) = EarliestDispatch(t)
         /\ DispatchTarget(t) >= 0
         /\ t <= LeadTicks => DispatchTarget(t) = t

\* C27: each note-on carries its on_target as timestamp and is submitted no
\* earlier than the on_target less the lead of min(interval / 2, 2 ms) in
\* ticks, cancelled or not; an on_target that is not above the lead has
\* nothing taken off.
C27_DispatchLead == [][DispatchedWithinLead]_vars /\ []LeadGuarded

\* C27 witness: with an interval of 200 ms, the lead of 2 ms, the note-on of
\* the second iteration was submitted ahead of its on_target, within the lead.
C27_Witness ==
    /\ p_pc = "note_off"
    /\ p_i = 1
    /\ interval_ns = 200000000
    /\ p_clock < p_on_target
    /\ p_clock >= p_on_target - ns_to_host(MAX_LEAD_NS)
    /\ p_sent[Len(p_sent)].timestamp = p_on_target

(***************************************************************************)
(* Properties of the counters of midi_stats.                               *)
(***************************************************************************)
\* C28: in every state of midi_stats events_seen is the sum of
\* timestamped_events and untimestamped_events, the effective-time series has
\* seen events_seen events, the timestamp-only series has seen
\* timestamped_events events, and the arrival-lateness accumulator holds
\* timestamped_events samples.
C28_CountersAgree ==
    /\ s_state.events_seen =
         s_state.timestamped_events + s_state.untimestamped_events
    /\ s_state.effective_series.events_seen = s_state.events_seen
    /\ s_state.timestamped_series.events_seen = s_state.timestamped_events
    /\ s_state.arrival_vs_timestamp.count = s_state.timestamped_events
    /\ s_state.events_seen = Len(ForwardedEvents(s_calls))

\* C28 witness: events with and events without a packet timestamp.
C28_Witness ==
    /\ s_state.events_seen >= 3
    /\ s_state.timestamped_events >= 1
    /\ s_state.untimestamped_events >= 1

\* The counts of a series that has seen its events.
SeriesCounts(series) ==
    /\ series.intervals_seen = series.interval.count
    /\ series.intervals_seen =
         IF series.events_seen = 0 THEN 0 ELSE series.events_seen - 1
    /\ series.events_seen = 1 => series.interval.samples = <<>>
    /\ series.have_reference_interval <=> series.events_seen >= 2
    /\ series.have_previous <=> series.events_seen >= 1

\* C29: in every state of each series intervals_seen and the count of the
\* interval accumulator are 0 without an event and k - 1 after k >= 1
\* events; the first event adds no interval sample; the reference interval
\* is present exactly from the second event on.
C29_SeriesCounts ==
    /\ SeriesCounts(s_state.effective_series)
    /\ SeriesCounts(s_state.timestamped_series)

\* C29 witness: a series after one event, the other after three.
C29_Witness ==
    /\ s_state.timestamped_series.events_seen = 1
    /\ s_state.effective_series.events_seen = 3
    /\ s_state.effective_series.intervals_seen = 2

(***************************************************************************)
(* Properties of the scan of process_packet_bytes.                         *)
(***************************************************************************)
\* The pass at index i of a buffer moves the index forward, not past the
\* length, or leaves the loop; it reads inside the buffer.
PassSound(data, i, channel_filter) ==
    LET pass == ScanPass(data, i, channel_filter)
    IN  /\ pass.break \/ (pass.i > i /\ pass.i <= Len(data))
        /\ \A k \in PassReads(data, i, channel_filter) : 0 <= k /\ k < Len(data)

\* C30: for every buffer, of length 0 and malformed ones included, every
\* pass of the loop of process_packet_bytes moves the index forward or leaves
\* the loop, so that the scan ends after at most length passes, and every
\* byte read lies below the length.
C30_ScanSound ==
    /\ cb_pc = "scan" =>
         LET data == cb_pktlist[cb_n + 1].data
         IN  /\ 0 <= cb_i /\ cb_i <= Len(data)
             /\ cb_i < Len(data) => PassSound(data, cb_i, s_cfg.channel)
    /\ \A c \in 1..Len(s_calls) :
         /\ s_calls[c].returned => s_calls[c].scanned <= Len(s_calls[c].packet.data)
         /\ c < Len(s_calls) => s_calls[c].returned
         /\ cb_pc # "scan" => s_calls[c].returned

\* C30 witness: the scan of a buffer made of an undefined status, a stray
\* data byte and a sysex that is not closed has ended at the end of the buffer.
C30_Witness ==
    /\ Len(s_calls) = 1
    /\ s_calls[1].returned
    /\ s_calls[1].packet.data = <<244, 60, 240, 17>>
    /\ s_calls[1].scanned = 4

\* A status byte of a note-on for the channel at index i of data, followed by
\* two data bytes with the high bit clear and a velocity above zero.
CleanNoteOnAt(data, i, channel_filter) ==
    /\ NoteOnAt(data, i, channel_filter)
    /\ data[i + 2] < 128
    /\ data[i + 3] < 128

\* C31: every forwarded event starts at a status byte 0x9c followed by two
\* data bytes that both have the high bit clear, so that a status or
\* real-time byte standing where a data byte is expected is never the note or
\* the velocity of an event; and the message such a status byte starts is not
\* lost: outside a sysex, every note-on for the channel with clean data bytes
\* is forwarded.
C31_AsStated ==
    \A c \in 1..Len(s_calls) :
        LET call == s_calls[c]
            data == call.packet.data
        IN  /\ \A o \in Range(call.forwarded) :
                   CleanNoteOnAt(data, o, s_cfg.channel)
            /\ (call.returned /\ 240 \notin Range(data)) =>
                   \A i \in 0..(Len(data) - 1) :
                       CleanNoteOnAt(data, i, s_cfg.channel) =>
                           i \in Range(call.forwarded)

\* The interval in ticks fits in 64 bits: ns_to_host cuts nothing off.
IntervalFits == ns_to_host(w_cfg.interval_ns) < UINT64_WRAP

\* The on-target of iteration i is reached before the tick counter wraps.
TargetFits(i) ==
    w_start_host + i * ns_to_host(w_cfg.interval_ns) < UINT64_WRAP

\* gate_host is at most interval_host.
GateWithinInterval == w_gate_host <= w_interval_host

\* The off-target of the last iteration is not after the next on-target.
OffBeforeNextOn == w_off_target <= on_target_u64(w_i)

\* What holds of the schedule at any width: the off-target is on_target +
\* gate_host as the uint64_t sum gives it, and with gate = 1.0 gate_host is
\* interval_host and the off-target is the next on-target.
ScheduleUnclamped ==
    /\ w_pc \in {"on_target", "off_target"} =>
           (w_cfg.gate_num = w_cfg.gate_den => w_gate_host = w_interval_host)
    /\ (w_pc = "on_target" /\ w_i > 0) =>
           /\ w_off_target = u64(w_on_target + w_gate_host)
           /\ w_cfg.gate_num = w_cfg.gate_den =>
                  w_off_target = on_target_u64(w_i)

\* C32 as stated: for every gate in [0,1], every interval and every nonzero
\* timebase, the gate in ticks is at most the interval in ticks and the
\* off-target of iteration i is not after the on-target of iteration i+1;
\* they coincide when gate = 1.0 and the off-target is on_target + gate_host,
\* never clamped.
C32_AsStated ==
    /\ ScheduleUnclamped
    /\ w_pc \in {"on_target", "off_target"} => GateWithinInterval
    /\ (w_pc = "on_target" /\ w_i > 0) => OffBeforeNextOn

\* C32, amended: the gate in ticks is at most the interval in ticks whenever
\* the interval in ticks fits in 64 bits, and the off-target of iteration i
\* is not after the on-target of iteration i+1 whenever that on-target is
\* reached before the tick counter wraps; at any width the two coincide when
\* gate = 1.0 and the off-target is on_target + gate_host, never clamped.
C32_GateWithinInterval ==
    /\ ScheduleUnclamped
    /\ (w_pc \in {"on_target", "off_target"} /\ IntervalFits) =>
           GateWithinInterval
    /\ (w_pc = "on_target" /\ w_i > 0 /\ IntervalFits /\ TargetFits(w_i)) =>
           OffBeforeNextOn

\* C32 witness: gate = 1.0 under the timebase of Apple silicon, the second
\* iteration done: its off-target is the on-target of the third, one full
\* interval of 24000 ticks after its own on-target.
C32_Witness ==
    /\ w_pc = "on_target"
    /\ w_i = 2
    /\ g_timebase = [numer |-> 125, denom |-> 3]
    /\ w_cfg.interval_ns = 1000001
    /\ w_cfg.gate_num = w_cfg.gate_den
    /\ IntervalFits
    /\ TargetFits(w_i)
    /\ w_gate_host = 24000
    /\ w_off_target = w_on_target + 24000
    /\ w_off_target = on_target_u64(w_i)

====
